---- MODULE Spec2Model ----
(***************************************************************************)
(* State-machine model of the marketpulse ingestion / deduplication /       *)
(* consensus / delivery pipeline:                                           *)
(*   src/src/backend.py       MarketStream, LocalBrain                      *)
(*   src/src/intelligence.py  NewsAggregator                                *)
(*   src/src/controller.py    Controller                                    *)
(* Every coroutine of the program runs on one asyncio loop, so a handler    *)
(* is atomic between two awaits; a handler with an await inside is split    *)
(* into one action per segment.                                             *)
(***************************************************************************)
EXTENDS Integers, Sequences, FiniteSets, TLC

\* ------------------------------------------------------------------ bounds
\* in-flight track_symbol coroutines suspended in validate_ticker
MaxTrackTasks == 1
\* the same where the calls of the filter box and of the ticker manager overlap
MaxOverlap == 2
\* process restarts (a fresh MarketStream against the same LocalBrain file)
MaxRestarts == 1

\* clock advances of one period each (see Tick)
MaxTicks == 3
\* AlertItems built by the Controller over a run
MaxArrivals == 6
\* day-long idle periods of a running stream (see Idle)
MaxIdles == 1
\* callback tasks waiting for the event loop at one time
MaxTasks == 2

\* --------------------------------------------------------------- constants
\* NewsAggregator.__init__: self.ttl = 30
TTL == 30
\* Controller.__init__: NewsAggregator(consensus_threshold=1)
CONTROLLER_THRESHOLD == 1
\* Controller.__init__: self.timer.setInterval(15000), in seconds
TIMER_INTERVAL == 15
\* Controller._on_timer_tick: flush(timeout=10)
FLUSH_TIMEOUT == 10
\* Controller.process_market_event: len(self.alert_queue) >= 5
QUEUE_CAP == 5
\* LocalBrain.mark_news_seen: DELETE ... WHERE timestamp < now - 86400
SEEN_RETENTION == 86400
\* _poll_alpha_vantage: len(self._news_dedup) > 2000
DEDUP_CAP == 2000
\* _poll_symbol: limit = 5 if is_priority else 2
PRIORITY_NEWS_LIMIT == 5
STANDARD_NEWS_LIMIT == 2
\* mark_priority: len(self.priority_universe) >= 5
PRIORITY_CAP == 5
\* _sync_universe: time.time() - last_update > 86400
SYNC_PERIOD == 86400

\* MarketStream.__init__: the default monitoring list
DefaultMonitoring == <<"NVDA", "TSLA", "AAPL", "BTC-USD", "ETH-USD">>
\* symbol.upper().strip() on the texts the user types, as a table
upper_strip(raw) ==
    CASE raw = " msft" -> "MSFT"
      [] raw = "zzzz " -> "ZZZZ"
      [] raw = "   " -> ""
      [] OTHER -> raw
\* texts typed into track_symbol: MSFT validates at the provider, ZZZZ does not
TrackInputs == {"MSFT", " msft", "zzzz ", "   "}
TrackSymbols == {upper_strip(r) : r \in TrackInputs} \ {""}
ProviderValid == {"NVDA", "TSLA", "AAPL", "BTC-USD", "ETH-USD", "MSFT"}
MarkInputs == {"NVDA", " msft"}
UnmarkInputs == {"NVDA", " msft"}
RemoveInputs == {"NVDA", " msft"}
\* what validate_ticker's provider probes give: rows, nothing, or an exception
ProbeOutcomes == {"data", "empty", "error"}
\* what a listing source returns: nothing (failure) or a listing
Listings == {<<>>, <<"AAPL", "MSFT">>}
\* what the Alpha Vantage listing gives: nothing (failure) or a listing
AvListings == {<<>>, <<"NVDA", "AAPL">>}
\* how long the stream runs between two looks at it: more than a sync period
LongRuns == {SYNC_PERIOD + 1}
\* how long the process stays down before it is started again (seconds)
Downtimes == {1, SYNC_PERIOD + 1}
\* NewsAggregator(consensus_threshold=...): the Controller's 1, the default 2, and 3
Thresholds == {1, 2, 3}
\* symbols and sources of the raw news handed to NewsAggregator.process
NewsSymbols == {"NVDA", "TSLA"}
Sources == {"Reuters (via Yahoo)", "Reuters (via AlphaVantage)", "Benzinga (via AlphaVantage)"}
\* headline and summary of a report (a summary may be empty)
Reports == {[headline |-> "NVDA beats earnings", summary |-> ""],
            [headline |-> "Chipmaker surges", summary |-> "Record quarter"]}
\* the process calls made: every source and report for NVDA, one for TSLA
ProcessInputs ==
    {<<source, "NVDA", report>> : source \in Sources, report \in Reports}
        \cup {<<"Reuters (via Yahoo)", "TSLA",
                [headline |-> "Chipmaker surges", summary |-> "Record quarter"]>>}

\* the MarketEvents handed to Controller.process_market_event
NoData == [source |-> "", headline |-> "", summary |-> "", url |-> ""]
NewsEvent(symbol, source, report) ==
    [type |-> "RAW_NEWS", symbol |-> symbol,
     data |-> [source |-> source, headline |-> report.headline,
               summary |-> report.summary, url |-> ""]]
MarketEvents ==
    {NewsEvent(in[2], in[1], in[3]) :
        in \in {i \in ProcessInputs : i[1] = "Reuters (via Yahoo)" /\ i[3].summary # ""}}
        \cup {[type |-> "FUNDAMENTALS", symbol |-> s, data |-> NoData] : s \in NewsSymbols}
        \cup {[type |-> "UNIVERSE_UPDATE", symbol |-> "SYSTEM", data |-> NoData]}
\* texts the filter box sends (SmartDock upper-cases them, update_filter again)
FilterInputs == {"ALL", "nvda"}
py_upper(text) == IF text = "nvda" THEN "NVDA" ELSE text
Modes == {"AUTO", "MANUAL"}

\* what yfinance's ticker.news returns: items with a title, a link, a publisher
\* and a summary
ArticleA == [title |-> "NVDA beats earnings", url |-> "https://news.example/a",
             publisher |-> "Reuters", summary |-> ""]
NoLink == [title |-> "Chipmaker surges", url |-> "",
           publisher |-> "Reuters", summary |-> "Record quarter"]
NoTitle == [title |-> "", url |-> "https://news.example/c",
            publisher |-> "Reuters", summary |-> "Record quarter"]
NewsLists == {<<ArticleA, ArticleA>>, <<NoLink, NoTitle, ArticleA>>}
\* what the Alpha Vantage feed returns; FeedC has no url
FeedA == [title |-> "NVDA beats earnings", url |-> "https://news.example/a",
          source |-> "Reuters", summary |-> "Record quarter",
          tickers |-> <<"NVDA", "AAPL", "CRYPTO:BTC">>]
FeedC == [title |-> "Fed holds rates", url |-> "",
          source |-> "Reuters", summary |-> "",
          tickers |-> <<"MSFT">>]
NewsFeeds == {<<FeedA>>, <<FeedC>>}
\* f"{headline}|{source}"
headline_source(headline, source) ==
    CASE headline = "Fed holds rates" /\ source = "Reuters" -> "Fed holds rates|Reuters"
      [] headline = "NVDA beats earnings" /\ source = "Reuters"
            -> "NVDA beats earnings|Reuters"
      [] OTHER -> "|"
\* the dedup keys: the items' urls and headline|source pairs
Keys == {"https://news.example/a", "Fed holds rates|Reuters",
         "NVDA beats earnings|Reuters"}
\* str.isalpha on the ticker symbols used here
isalpha(symbol) == symbol \in {"AAPL", "MSFT", "NVDA", "TSLA"}
\* f"{publisher} (via Yahoo)" and f"{source} (via AlphaVantage)"
via(name, provider) ==
    CASE name = "Reuters" /\ provider = "Yahoo" -> "Reuters (via Yahoo)"
      [] name = "Reuters" /\ provider = "AlphaVantage" -> "Reuters (via AlphaVantage)"
      [] name = "Benzinga" /\ provider = "AlphaVantage" -> "Benzinga (via AlphaVantage)"
      [] OTHER -> "Unknown"
\* the symbols polled, the articles a feed of new unrelated stories holds, and
\* the time a running stream sits idle
PollSymbols == {"NVDA", "TSLA"}
FreshCounts == {DEDUP_CAP}
\* what the providers give the loops' polls
LoopNewsLists == {<<ArticleA, ArticleA>>}
LoopNewsFeeds == {<<FeedA>>}
\* ticker.news for the sweeps: the one usable article first, third or sixth
SweepNewsLists == {<<ArticleA, ArticleA>>, <<NoLink, NoTitle, ArticleA>>,
                   <<NoLink, NoTitle, NoLink, NoTitle, NoLink, ArticleA>>}
\* the symbols the user marks and unmarks while the loops run
SweepMarks == {"NVDA"}
SweepUnmarks == {"TSLA"}
IdleTimes == {SEEN_RETENTION}
\* the seconds the process stays down before main() runs again
ShortDowntimes == {d \in Downtimes : d < SEEN_RETENTION}

\* the three polling loops start() gathers
Loops == {"priority", "standard", "global"}

VARIABLES
    running,              \* MarketStream.running
    monitoring_universe,  \* MarketStream.monitoring_universe (list)
    priority_universe,    \* MarketStream.priority_universe (list)
    full_universe,        \* MarketStream.full_universe (list)
    phase,                \* where start() is: "constructed", "syncing", "started"
    track_tasks,          \* symbol -> number of track_symbol calls awaiting validation
    db_tickers,           \* LocalBrain table tickers (symbol PRIMARY KEY), rowid order
    db_settings,          \* LocalBrain table settings: key -> <<>> or <<value>>
    now,                  \* time.time()
    ticks,                \* clock advances so far
    threshold,            \* NewsAggregator.threshold
    buffer,               \* NewsAggregator._buffer: symbol -> list of reports
    returned,             \* what the last process call returned: <<>> (None) or <<VerifiedNews>>
    alert_queue,          \* Controller.alert_queue (deque of {'symbol', 'payload'})
    mode,                 \* Controller.mode
    current_filter,       \* Controller.current_filter
    timer_active,         \* Controller.timer.isActive()
    shown,                \* the last item emitted through show_alert: <<>> or <<item>>
    arrivals,             \* AlertItems built so far; an item's payload is its number
    news_dedup,           \* MarketStream._news_dedup: [keys: the keys above in the set,
                          \*   others: how many other keys the set holds]
    seen_news,            \* table seen_news: key -> <<>> or <<timestamp>>
    emitted,              \* the RAW_NEWS events the last poll emitted
    offered,              \* the dedup keys of the items the last poll checked
    subscribers,          \* MarketStream._subscribers (the callbacks' names)
    tasks,                \* the callback tasks _emit created that have not run yet
    reached,              \* the <<key, symbol>> of the RAW_NEWS tasks that got to process,
                          \* and <<key, symbol, "shed">> of those dropped at the full queue
    loops,                \* where each polling loop is: "check" (at or before its while
                          \*   condition), "sweep", "sleep", "exited", "raised"
    sweep,                \* loop -> the polls of its sweep still in flight
    admitted_at,          \* key -> <<>> or <<time of its last admission>>
    restarts,             \* restarts so far
    last                  \* the last handler that ran and what it returned

vars == <<running, monitoring_universe, priority_universe, full_universe, phase,
          track_tasks, db_tickers, db_settings, now, restarts, last,
          ticks, threshold, buffer, returned,
          alert_queue, mode, current_filter, timer_active, shown, arrivals,
          news_dedup, seen_news, emitted, offered, admitted_at, subscribers, tasks,
          reached, loops, sweep>>

\* the variables of each component
universe_vars == <<running, monitoring_universe, priority_universe, full_universe,
                   phase, track_tasks, db_tickers, db_settings, restarts>>
aggregator_vars == <<threshold, buffer, returned>>
controller_vars == <<alert_queue, mode, current_filter, timer_active, shown, arrivals>>
dedup_vars == <<news_dedup, seen_news, emitted, offered, admitted_at>>
emit_vars == <<subscribers, tasks, reached>>
task_vars == <<tasks, reached>>
loop_vars == <<loops, sweep>>
\* what the universe handlers leave alone
non_universe == <<ticks, aggregator_vars, controller_vars, dedup_vars, emit_vars,
                  loop_vars>>
\* what the aggregator leaves alone
non_aggregator == <<universe_vars, ticks, now, controller_vars, dedup_vars, emit_vars,
                    loop_vars>>
\* what the Controller's handlers leave alone
non_controller == <<universe_vars, ticks, now, threshold, dedup_vars, subscribers,
                    loop_vars>>
\* what the polls leave alone
non_dedup == <<universe_vars, ticks, now, aggregator_vars, controller_vars, subscribers,
               reached>>

\* ----------------------------------------------------------------- helpers
\* what a handler did: ret is what it returned ("true", "false", "none"), the
\* return statement it left by, or the exception it raised; poll tells whether it
\* spawned an out-of-band _poll_symbol task; purged counts the reports that
\* process dropped as expired
Ret(op, sym, ret, poll) ==
    [op |-> op, sym |-> sym, ret |-> ret, poll |-> poll, purged |-> 0]
RetProcess(sym, ret, purged) ==
    [op |-> "process", sym |-> sym, ret |-> ret, poll |-> FALSE, purged |-> purged]

Range(s) == {s[i] : i \in DOMAIN s}

RECURSIVE ListRemove(_, _)
\* list.remove dropping the first element whatever x is
ListRemoveHead(s, x) == Tail(s)
\* list.remove(x): drops the first element equal to x
ListRemove(s, x) ==
    IF s = <<>> THEN <<>>
    ELSE IF Head(s) = x THEN Tail(s)
    ELSE <<Head(s)>> \o ListRemove(Tail(s), x)

\* json.dumps writing an empty array whatever the list holds
json_dumps_empty(list) == [json |-> "array", items |-> <<>>]
\* json.dumps of a list of strings, and json.loads of that text
json_dumps(list) == [json |-> "array", items |-> list]
json_loads(text) == text.items

SettingKeys == {"monitoring_universe", "priority_universe", "last_universe_update"}

\* str(time.time()) as stored in a setting, and float() of that text
py_str(x) == [str |-> x]
py_float(text) == text.str

\* LocalBrain.get_setting: the value, or None (here <<>>)
get_setting(db, key) == db[key]
\* LocalBrain.set_setting with the write left out
set_setting_skipped(db, key, value) == db
\* LocalBrain.set_setting: INSERT OR REPLACE
set_setting(db, key, value) == [db EXCEPT ![key] = <<value>>]

RECURSIVE add_tickers(_, _)
\* LocalBrain.add_tickers replacing the table by the new symbols
add_tickers_only(table, tickers) == tickers
\* LocalBrain.add_tickers: INSERT OR IGNORE, one row per new symbol
add_tickers(table, tickers) ==
    IF tickers = <<>> THEN table
    ELSE add_tickers(IF Head(tickers) \in Range(table) THEN table
                     ELSE Append(table, Head(tickers)),
                     Tail(tickers))
\* LocalBrain.get_tickers
get_tickers(table) == table

TotalTasks == LET RECURSIVE Sum(_)
                  Sum(S) == IF S = {} THEN 0
                            ELSE LET x == CHOOSE y \in S : TRUE
                                 IN track_tasks[x] + Sum(S \ {x})
              IN Sum(TrackSymbols)

\* ------------------------------------------------------------------- Init
\* The LocalBrain file main() opens: a new one, or the one an earlier session
\* left after marking four of the default symbols as priority (it tracked and
\* removed nothing, and its listing fetches failed)
EarlierPriority == <<"TSLA", "AAPL", "BTC-USD", "ETH-USD">>
NewSettings == [k \in SettingKeys |-> <<>>]
EarlierSettings ==
    [k \in SettingKeys |-> IF k = "priority_universe"
                           THEN <<json_dumps(EarlierPriority)>> ELSE <<>>]
InitialSettings == {NewSettings, EarlierSettings}

\* MarketStream.__init__ and LocalBrain.__init__, and NewsAggregator.__init__
\* but for its threshold
InitBase ==
    /\ running = FALSE
    /\ monitoring_universe = DefaultMonitoring
    /\ priority_universe = <<>>
    /\ full_universe = <<>>
    /\ phase = "constructed"
    /\ track_tasks = [s \in TrackSymbols |-> 0]
    /\ db_tickers = <<>>
    /\ now = SYNC_PERIOD + 1
    /\ restarts = 0
    /\ last = Ret("init", "", "none", FALSE)
    /\ ticks = 0
    /\ buffer = <<>>
    /\ returned = <<>>
    /\ alert_queue = <<>>
    /\ mode = "AUTO"
    /\ current_filter = "ALL"
    /\ timer_active = TRUE
    /\ shown = <<>>
    /\ arrivals = 0
    /\ news_dedup = [keys |-> {}, others |-> 0]
    /\ seen_news = [k \in Keys |-> <<>>]
    /\ emitted = <<>>
    /\ offered = {}
    /\ admitted_at = [k \in Keys |-> <<>>]
    /\ tasks = <<>>
    /\ reached = {}
    /\ loops = [l \in Loops |-> "check"]
    /\ sweep = [l \in Loops |-> {}]

\* the program as main() builds it: the Controller's aggregator
Init ==
    /\ InitBase
    /\ db_settings \in InitialSettings
    /\ threshold = CONTROLLER_THRESHOLD
    /\ subscribers = <<"process_market_event">>

\* ------------------------------------------------- MarketStream: universe
\* track_symbol, lines 68-81: the part after validation (no await inside)
TrackTail(symbol, full, tickers) ==
    /\ full_universe' = full
    /\ db_tickers' = tickers
    /\ IF symbol \notin Range(monitoring_universe)
       THEN /\ monitoring_universe' = Append(monitoring_universe, symbol)
            /\ db_settings' = set_setting(db_settings, "monitoring_universe",
                                          json_dumps(monitoring_universe'))
            /\ last' = Ret("track_symbol", symbol, "true", running)
       ELSE /\ UNCHANGED <<monitoring_universe, db_settings>>
            /\ last' = Ret("track_symbol", symbol, "true", FALSE)

\* track_symbol up to its first await: an empty symbol returns False, a symbol
\* known in full_universe goes straight on, any other suspends in
\* validate_ticker (at most cap calls are followed at a time)
TrackBeginWithin(raw, cap) ==
    LET symbol == upper_strip(raw) IN
    /\ IF symbol = ""
       THEN /\ last' = Ret("track_symbol", symbol, "false", FALSE)
            /\ UNCHANGED <<full_universe, db_tickers, monitoring_universe,
                           db_settings, track_tasks>>
       ELSE IF symbol \in Range(full_universe)
       THEN /\ TrackTail(symbol, full_universe, db_tickers)
            /\ UNCHANGED track_tasks
       ELSE /\ TotalTasks < cap
            /\ track_tasks' = [track_tasks EXCEPT ![symbol] = @ + 1]
            /\ last' = Ret("track_symbol_await", symbol, "none", FALSE)
            /\ UNCHANGED <<full_universe, db_tickers, monitoring_universe,
                           db_settings>>
    /\ UNCHANGED <<running, priority_universe, phase, now, restarts, non_universe>>

\* a track_symbol call, one followed at a time
TrackBegin(raw) == TrackBeginWithin(raw, MaxTrackTasks)

\* validate_ticker answering True whatever the probes gave
validate_ticker_trusting(symbol, outcome, full) == TRUE
\* validate_ticker: a probe with rows is valid; with none, the symbol is valid
\* if full_universe holds it by now; an exception is caught and gives False
validate_ticker(symbol, outcome, full) ==
    CASE outcome = "data" -> TRUE
      [] outcome = "empty" -> symbol \in Range(full)
      [] OTHER -> FALSE

\* track_symbol, line 65, with the append forgotten
remember_valid_forgotten(full, symbol) == full
\* track_symbol, line 65: self.full_universe.append(symbol)
remember_valid(full, symbol) == Append(full, symbol)

\* track_symbol from the return of validate_ticker to its end
TrackFinish(symbol, outcome) ==
    /\ track_tasks[symbol] > 0
    /\ outcome = "data" => symbol \in ProviderValid
    /\ track_tasks' = [track_tasks EXCEPT ![symbol] = @ - 1]
    /\ IF validate_ticker(symbol, outcome, full_universe)
       THEN TrackTail(symbol, remember_valid(full_universe, symbol),
                      add_tickers(db_tickers, <<symbol>>))
       ELSE /\ last' = Ret("track_symbol", symbol, "false", FALSE)
            /\ UNCHANGED <<full_universe, db_tickers, monitoring_universe,
                           db_settings>>
    /\ UNCHANGED <<running, priority_universe, phase, now, restarts, non_universe>>

\* mark_priority, line 92, with the comparison off by one
at_capacity_off_by_one(list) == Len(list) > PRIORITY_CAP
\* mark_priority, line 92: len(self.priority_universe) >= 5
at_capacity(list) == Len(list) >= PRIORITY_CAP

mark_priority(raw) ==
    LET symbol == upper_strip(raw) IN
    /\ IF symbol \notin Range(monitoring_universe)
       THEN /\ last' = Ret("mark_priority", symbol, "false", FALSE)
            /\ UNCHANGED <<priority_universe, db_settings>>
       ELSE IF symbol \in Range(priority_universe)
       THEN /\ last' = Ret("mark_priority", symbol, "true", FALSE)
            /\ UNCHANGED <<priority_universe, db_settings>>
       ELSE IF at_capacity(priority_universe)
       THEN /\ last' = Ret("mark_priority", symbol, "false", FALSE)
            /\ UNCHANGED <<priority_universe, db_settings>>
       ELSE /\ priority_universe' = Append(priority_universe, symbol)
            /\ db_settings' = set_setting(db_settings, "priority_universe",
                                          json_dumps(priority_universe'))
            /\ last' = Ret("mark_priority", symbol, "true", FALSE)
    /\ UNCHANGED <<running, monitoring_universe, full_universe, phase, track_tasks,
                   db_tickers, now, restarts, non_universe>>

unmark_priority(raw) ==
    LET symbol == upper_strip(raw) IN
    /\ IF symbol \in Range(priority_universe)
       THEN /\ priority_universe' = ListRemove(priority_universe, symbol)
            /\ db_settings' = set_setting(db_settings, "priority_universe",
                                          json_dumps(priority_universe'))
       ELSE UNCHANGED <<priority_universe, db_settings>>
    /\ last' = Ret("unmark_priority", symbol, "none", FALSE)
    /\ UNCHANGED <<running, monitoring_universe, full_universe, phase, track_tasks,
                   db_tickers, now, restarts, non_universe>>

remove_symbol(raw) ==
    LET symbol == upper_strip(raw) IN
    /\ IF symbol \in Range(monitoring_universe)
       THEN /\ monitoring_universe' = ListRemove(monitoring_universe, symbol)
            /\ db_settings' = set_setting(db_settings, "monitoring_universe",
                                          json_dumps(monitoring_universe'))
       ELSE UNCHANGED <<monitoring_universe, db_settings>>
    /\ last' = Ret("remove_symbol", symbol, "none", FALSE)
    /\ UNCHANGED <<running, priority_universe, full_universe, phase, track_tasks,
                   db_tickers, now, restarts, non_universe>>

\* start, lines 154-166: the persisted lists replace the in-memory ones
LoadSettings(settings) ==
    /\ monitoring_universe' =
          IF get_setting(settings, "monitoring_universe") # <<>>
          THEN json_loads(get_setting(settings, "monitoring_universe")[1])
          ELSE monitoring_universe
    /\ priority_universe' =
          IF get_setting(settings, "priority_universe") # <<>>
          THEN json_loads(get_setting(settings, "priority_universe")[1])
          ELSE priority_universe
    /\ phase' = "started"

\* float(self.db.get_setting("last_universe_update") or 0)
last_update(settings) ==
    IF get_setting(settings, "last_universe_update") # <<>>
    THEN py_float(get_setting(settings, "last_universe_update")[1])
    ELSE 0

\* start up to the first await of _sync_universe: the stored tickers are loaded;
\* when no listing fetch is due, start goes on to load the persisted lists
StartBegin ==
    /\ phase = "constructed"
    /\ running' = TRUE
    /\ full_universe' = IF get_tickers(db_tickers) # <<>>
                        THEN get_tickers(db_tickers) ELSE full_universe
    /\ IF get_tickers(db_tickers) = <<>>
          \/ now - last_update(db_settings) > SYNC_PERIOD
       THEN /\ phase' = "syncing"
            /\ UNCHANGED <<monitoring_universe, priority_universe>>
       ELSE LoadSettings(db_settings)
    /\ last' = Ret("start", "", "none", FALSE)
    /\ UNCHANGED <<track_tasks, db_tickers, db_settings, now, restarts, non_universe>>

\* _emit: one task per event for the coroutine callback
emit(events) ==
    tasks' = IF subscribers # <<>> THEN tasks \o events ELSE tasks

\* self.av_client: the stream is given an Alpha Vantage key
av_client == TRUE

\* the MarketEvent of lines 454 and 470
universe_update(full) == [type |-> "UNIVERSE_UPDATE", symbol |-> "SYSTEM", data |-> full]

\* _sync_universe taking a listing for granted when both sources gave none
sync_listing_assumed(sec, av) == IF sec # <<>> THEN sec ELSE <<"AAPL">>
\* _sync_universe, lines 444-474: the listing it saves, the SEC one or, when
\* that fetch gave nothing, the Alpha Vantage one
sync_listing(sec, av) ==
    IF sec # <<>> THEN sec ELSE IF av_client THEN av ELSE <<>>

\* the source _sync_universe took its listing from
sync_source(sec, av) ==
    IF sec # <<>> THEN "sec" ELSE IF av_client /\ av # <<>> THEN "av" ELSE "none"

\* _sync_universe from the listing fetches on, then the rest of start
StartSynced(sec, av) ==
    LET listing == sync_listing(sec, av) IN
    /\ phase = "syncing"
    /\ IF listing # <<>>
       THEN /\ db_tickers' = add_tickers(db_tickers, listing)
            /\ full_universe' = get_tickers(db_tickers')
            /\ db_settings' = set_setting(db_settings, "last_universe_update",
                                          py_str(now))
            /\ emit(<<universe_update(full_universe')>>)
       ELSE UNCHANGED <<db_tickers, full_universe, db_settings, tasks>>
    /\ LoadSettings(db_settings)
    /\ last' = Ret("start", "", sync_source(sec, av), FALSE)
    /\ UNCHANGED <<running, track_tasks, now, restarts, ticks, aggregator_vars,
                   controller_vars, dedup_vars, subscribers, reached, loop_vars>>

\* The process ends and main() runs again later: a new MarketStream over the
\* same LocalBrain file
Restart(downtime) ==
    /\ restarts < MaxRestarts
    /\ restarts' = restarts + 1
    /\ now' = now + downtime
    /\ running' = FALSE
    /\ monitoring_universe' = DefaultMonitoring
    /\ priority_universe' = <<>>
    /\ full_universe' = <<>>
    /\ phase' = "constructed"
    /\ track_tasks' = [s \in TrackSymbols |-> 0]
    /\ last' = Ret("init", "", "none", FALSE)
    /\ buffer' = <<>>
    /\ returned' = <<>>
    /\ alert_queue' = <<>>
    /\ mode' = "AUTO"
    /\ current_filter' = "ALL"
    /\ timer_active' = TRUE
    /\ shown' = <<>>
    /\ news_dedup' = [keys |-> {}, others |-> 0]
    /\ emitted' = <<>>
    /\ offered' = {}
    /\ tasks' = <<>>
    /\ loops' = [l \in Loops |-> "check"]
    /\ sweep' = [l \in Loops |-> {}]
    /\ UNCHANGED <<db_tickers, db_settings, ticks, threshold, arrivals,
                   seen_news, admitted_at, subscribers, reached>>

NextUniverse ==
    \/ \E raw \in TrackInputs : TrackBegin(raw)
    \/ \E symbol \in TrackSymbols, o \in ProbeOutcomes : TrackFinish(symbol, o)
    \/ \E raw \in MarkInputs : mark_priority(raw)
    \/ \E raw \in UnmarkInputs : unmark_priority(raw)
    \/ \E raw \in RemoveInputs : remove_symbol(raw)
    \/ StartBegin
    \/ \E sec \in Listings, av \in Listings : StartSynced(sec, av)
    \/ \E d \in Downtimes : Restart(d)

SpecUniverse == Init /\ [][NextUniverse]_vars

\* track_symbol called from the filter box (Controller.update_filter, line 82)
\* and from the ticker manager (_process_tickers_async, line 114) while an
\* earlier call is still in validate_ticker, and symbols removed again
NextOverlap ==
    \/ \E raw \in TrackInputs : TrackBeginWithin(raw, MaxOverlap)
    \/ \E symbol \in TrackSymbols, o \in ProbeOutcomes : TrackFinish(symbol, o)
    \/ \E raw \in RemoveInputs : remove_symbol(raw)

SpecOverlap == Init /\ [][NextOverlap]_vars

\* --------------------------------------------------------- NewsAggregator
\* dict.get with the list a missing symbol gets at lines 47-48
buffer_of(buf, symbol) == IF symbol \in DOMAIN buf THEN buf[symbol] ELSE <<>>

\* process, line 51: now - n['time'] < self.ttl
fresh(n, t) == t - n.time < TTL

\* process, line 51, with the old reports kept
purge_nothing(list, t) == list
\* process, line 51: the list comprehension that drops old reports
purge(list, t) == SelectSeq(list, LAMBDA n : fresh(n, t))

\* process, line 55, never finding the source
reported_never(list, source) == FALSE
\* process, line 55: any(n['source'] == source for n in self._buffer[symbol])
reported(list, source) == \E i \in DOMAIN list : list[i].source = source

\* the list comprehension of line 70
sources_of(list) == [i \in DOMAIN list |-> list[i].source]
\* the list comprehension of line 72 without its condition
summaries_of_all(list) == [i \in DOMAIN list |-> list[i].summary]
\* the list comprehension of line 72
summaries_of(list) ==
    LET kept == SelectSeq(list, LAMBDA n : n.summary # "")
    IN [i \in DOMAIN kept |-> kept[i].summary]

\* the VerifiedNews of lines 83-92 (impact, sentiment and the longest summary
\* are derived from the same reports and are left out)
VerifiedNews(symbol, headline, list, t) ==
    [symbol |-> symbol, headline |-> headline, sources |-> sources_of(list),
     all_summaries |-> summaries_of(list), timestamp |-> t]

\* process with the count compared to the threshold by > instead of >=
consensus_late(count, th) == count > th
\* process, line 68: count >= self.threshold
consensus(count, th) == count >= th

\* NewsAggregator.process(source, symbol, headline, sentiment, summary) at time
\* t on buffer buf with threshold th: the buffer it leaves, what it returns
\* (<<>> for None), the return statement it leaves by, and how many old
\* reports it dropped
process(buf, th, source, symbol, report, t) ==
    LET kept == purge(buffer_of(buf, symbol), t)
        with == Append(kept, [source |-> source, headline |-> report.headline,
                              summary |-> report.summary, time |-> t])
        put(list) == [s \in DOMAIN buf \cup {symbol} |->
                        IF s = symbol THEN list ELSE buf[s]]
        purged == Len(buffer_of(buf, symbol)) - Len(kept)
    IN
    IF reported(kept, source)
    THEN [buffer |-> put(kept), returned |-> <<>>,
          ret |-> "duplicate", purged |-> purged]
    ELSE IF consensus(Len(with), th)
    THEN [buffer |-> put(<<>>),
          returned |-> <<VerifiedNews(symbol, report.headline, with, t)>>,
          ret |-> "verified", purged |-> purged]
    ELSE [buffer |-> put(with), returned |-> <<>>,
          ret |-> "buffered", purged |-> purged]

\* a NewsAggregator on its own, fed by a caller
Process(source, symbol, report) ==
    LET out == process(buffer, threshold, source, symbol, report, now) IN
    /\ buffer' = out.buffer
    /\ returned' = out.returned
    /\ last' = RetProcess(symbol, out.ret, out.purged)
    /\ UNCHANGED <<threshold, non_aggregator>>

\* self.news_aggregator.flush(timeout=10), controller.py line 164: NewsAggregator
\* defines no flush, so the attribute lookup raises AttributeError and the
\* caller is left at that line; nothing of the aggregator changes
flush_call ==
    /\ last' = Ret("flush", "", "AttributeError", FALSE)
    /\ UNCHANGED aggregator_vars

\* the timer's flush call against a NewsAggregator on its own
Flush ==
    /\ flush_call
    /\ UNCHANGED non_aggregator

\* time passes: one timer period
Tick ==
    /\ ticks < MaxTicks
    /\ ticks' = ticks + 1
    /\ now' = now + TIMER_INTERVAL
    /\ UNCHANGED <<universe_vars, aggregator_vars, controller_vars, dedup_vars,
                   emit_vars, loop_vars, last>>

InitAggregator ==
    /\ InitBase
    /\ db_settings = NewSettings
    /\ threshold \in Thresholds
    /\ subscribers = <<>>

NextAggregator ==
    \/ \E in \in ProcessInputs : Process(in[1], in[2], in[3])
    \/ Flush
    \/ Tick

SpecAggregator == InitAggregator /\ [][NextAggregator]_vars

\* ------------------------------------------------------------- Controller
\* the mode test passing in MANUAL as well
mode_is_auto_always(md) == TRUE
\* self.mode == "AUTO" (lines 88, 171, 201, 343) and mode == "AUTO" (line 95)
mode_is_auto(md) == md = "AUTO"

\* _matches_filter letting every symbol through
matches_filter_any(filter, symbol) == TRUE
\* _matches_filter
matches_filter(filter, symbol) ==
    IF filter = "" \/ filter = "ALL" THEN TRUE ELSE symbol = filter

\* _try_show_next taking the newest item that matches the filter
first_match_newest(queue, filter) ==
    IF \E i \in DOMAIN queue : matches_filter(filter, queue[i].symbol)
    THEN CHOOSE i \in DOMAIN queue :
            /\ matches_filter(filter, queue[i].symbol)
            /\ \A j \in (i + 1)..Len(queue) : ~matches_filter(filter, queue[j].symbol)
    ELSE 0
\* _try_show_next, lines 180-184: the position of the first item that matches
\* the filter, 0 when none does
first_match(queue, filter) ==
    IF \E i \in DOMAIN queue : matches_filter(filter, queue[i].symbol)
    THEN CHOOSE i \in DOMAIN queue :
            /\ matches_filter(filter, queue[i].symbol)
            /\ \A j \in 1..(i - 1) : ~matches_filter(filter, queue[j].symbol)
    ELSE 0

\* deque.remove taking the newest equal item instead of the oldest
deque_remove_last(queue, x) ==
    LET i == CHOOSE k \in DOMAIN queue :
                 /\ queue[k].symbol = x.symbol
                 /\ \A j \in (k + 1)..Len(queue) : queue[j].symbol # x.symbol
    IN SubSeq(queue, 1, i - 1) \o SubSeq(queue, i + 1, Len(queue))
\* deque.remove(x): drops the first item equal to x
deque_remove(queue, x) == ListRemove(queue, x)

\* _try_show_next: the queue it leaves, what it emits through show_alert (<<>>
\* when nothing) and whether the timer runs afterwards
try_show_next(queue, filter, md, timer) ==
    LET i == first_match(queue, filter) IN
    IF queue = <<>> \/ i = 0
    THEN [queue |-> queue, shown |-> <<>>, timer |-> timer]
    ELSE [queue |-> deque_remove(queue, queue[i]), shown |-> <<queue[i]>>,
          timer |-> IF mode_is_auto(md) THEN TRUE ELSE timer]

\* the Controller's part of a delivery attempt
Deliver(out) ==
    /\ alert_queue' = out.queue
    /\ shown' = IF out.shown # <<>> THEN out.shown ELSE shown
    /\ timer_active' = out.timer

\* what a delivery attempt is logged as
Outcome(out) == IF out.shown # <<>> THEN "shown" ELSE "nothing"

\* process_market_event with the throttle of line 208 left out
queue_full_never(queue) == FALSE
\* process_market_event, line 208: len(self.alert_queue) >= 5
queue_full(queue) == Len(queue) >= QUEUE_CAP

\* the enqueue at the end of _analyze_and_queue (lines 335-345) and of the
\* fundamentals branch (lines 253-255); only the former has the urgent trigger
Enqueue(symbol, urgent) ==
    LET item == [symbol |-> symbol, payload |-> arrivals + 1]
        queued == Append(alert_queue, item)
    IN
    /\ arrivals < MaxArrivals
    /\ arrivals' = arrivals + 1
    /\ IF urgent /\ Len(queued) = 1 /\ mode_is_auto(mode) /\ ~timer_active
       THEN Deliver([try_show_next(queued, current_filter, mode, timer_active)
                        EXCEPT !.timer = TRUE])
       ELSE Deliver([queue |-> queued, shown |-> <<>>, timer |-> timer_active])

\* Controller.process_market_event(event)
process_market_event(event) ==
    LET out == process(buffer, threshold, event.data.source, event.symbol,
                       event.data, now)
    IN
    /\ IF queue_full(alert_queue)
       THEN /\ last' = Ret("process_market_event", event.symbol, "dropped", FALSE)
            /\ UNCHANGED <<aggregator_vars, controller_vars>>
       ELSE IF event.type = "UNIVERSE_UPDATE"
       THEN /\ last' = Ret("process_market_event", event.symbol, "ignored", FALSE)
            /\ UNCHANGED <<aggregator_vars, controller_vars>>
       ELSE IF event.type = "RAW_NEWS"
       THEN /\ buffer' = out.buffer
            /\ returned' = out.returned
            /\ IF out.returned # <<>>
               THEN /\ Enqueue(event.symbol, TRUE)
                    /\ last' = Ret("process_market_event", event.symbol, "queued", FALSE)
               ELSE /\ last' = Ret("process_market_event", event.symbol, "pending", FALSE)
                    /\ UNCHANGED <<alert_queue, shown, timer_active, arrivals>>
            /\ UNCHANGED <<mode, current_filter>>
       ELSE /\ Enqueue(event.symbol, FALSE)
            /\ last' = Ret("process_market_event", event.symbol, "queued", FALSE)
            /\ UNCHANGED <<mode, current_filter, buffer, returned>>
    /\ UNCHANGED non_controller

\* Controller._on_timer_tick: the flush call of line 164 raises, so the
\* delivery of lines 170-172 is never reached
on_timer_tick ==
    /\ timer_active
    /\ flush_call
    /\ UNCHANGED <<controller_vars, non_controller, task_vars>>

\* Controller.force_next_alert
force_next_alert ==
    LET out == try_show_next(alert_queue, current_filter, mode, timer_active) IN
    /\ Deliver(out)
    /\ last' = Ret("force_next_alert", "", Outcome(out), FALSE)
    /\ UNCHANGED <<mode, current_filter, arrivals, aggregator_vars, non_controller,
                   task_vars>>

\* Controller.set_mode(mode)
set_mode(md) ==
    LET out == try_show_next(alert_queue, current_filter, md, TRUE) IN
    /\ mode' = md
    /\ IF mode_is_auto(md)
       THEN /\ Deliver(out)
            /\ last' = Ret("set_mode", "", Outcome(out), FALSE)
       ELSE /\ timer_active' = FALSE
            /\ last' = Ret("set_mode", "", "nothing", FALSE)
            /\ UNCHANGED <<alert_queue, shown>>
    /\ UNCHANGED <<current_filter, arrivals, aggregator_vars, non_controller,
                   task_vars>>

\* Controller.update_filter(filter_text); the track_symbol task it spawns for a
\* symbol filter is a TrackBegin of the universe
update_filter(text) ==
    LET out == try_show_next(alert_queue, py_upper(text), mode, timer_active) IN
    /\ current_filter' = py_upper(text)
    /\ IF mode_is_auto(mode)
       THEN /\ Deliver(out)
            /\ last' = Ret("update_filter", py_upper(text), Outcome(out), FALSE)
       ELSE /\ last' = Ret("update_filter", py_upper(text), "nothing", FALSE)
            /\ UNCHANGED <<alert_queue, shown, timer_active>>
    /\ UNCHANGED <<mode, arrivals, aggregator_vars, non_controller,
                   task_vars>>

\* the event loop runs the oldest callback task
RunTask ==
    /\ tasks # <<>>
    /\ process_market_event(Head(tasks))
    /\ tasks' = Tail(tasks)
    /\ reached' = IF Head(tasks).type # "RAW_NEWS" THEN reached
                  ELSE IF ~queue_full(alert_queue)
                  THEN reached \cup {<<Head(tasks).key, Head(tasks).symbol>>}
                  ELSE reached \cup {<<Head(tasks).key, Head(tasks).symbol, "shed">>}

\* process_market_event called with an event of the stream
HandleEvent(event) ==
    /\ process_market_event(event)
    /\ UNCHANGED task_vars

NextController ==
    \/ \E event \in MarketEvents : HandleEvent(event)
    \/ on_timer_tick
    \/ force_next_alert
    \/ \E md \in Modes : set_mode(md)
    \/ \E text \in FilterInputs : update_filter(text)

InitController ==
    /\ InitBase
    /\ db_settings = NewSettings
    /\ threshold = CONTROLLER_THRESHOLD
    /\ subscribers = <<"process_market_event">>

SpecController == InitController /\ [][NextController]_vars

\* ----------------------------------------------------------- news dedup
\* LocalBrain.is_news_seen answering that nothing was seen
is_news_seen_never(table, news_id) == FALSE
\* LocalBrain.is_news_seen
is_news_seen(table, news_id) == news_id \in DOMAIN table /\ table[news_id] # <<>>

\* DELETE FROM seen_news WHERE timestamp < now - 86400
cleanup(table, t) ==
    [k \in DOMAIN table |->
        IF table[k] # <<>> /\ table[k][1] < t - SEEN_RETENTION THEN <<>> ELSE table[k]]

\* LocalBrain.mark_news_seen with the insert left out
mark_news_seen_nothing(table, news_id, t, draw) ==
    IF draw THEN cleanup(table, t) ELSE table
\* LocalBrain.mark_news_seen; draw says whether random.random() > 0.9
mark_news_seen(table, news_id, t, draw) ==
    LET inserted == IF table[news_id] = <<>>
                    THEN [table EXCEPT ![news_id] = <<t>>] ELSE table
    IN IF draw THEN cleanup(inserted, t) ELSE inserted

\* len(self._news_dedup)
dedup_len(mem) == Cardinality(mem.keys) + mem.others

\* self._news_dedup.add(key)
dedup_add(mem, key) == [mem EXCEPT !.keys = @ \cup {key}]

\* self._news_dedup.pop() returning victim ("other": a key not followed here)
dedup_pop(mem, victim) ==
    IF victim = "other"
    THEN [mem EXCEPT !.others = @ - 1]
    ELSE [mem EXCEPT !.keys = @ \ {victim}]

\* content.get('title') or content.get('headline', 'No Headline')
headline_of(item) == IF item.title # "" THEN item.title ELSE "No Headline"

\* _poll_symbol, lines 282-316: the loop over news_list[:limit] from item i on.
\* st holds the in-memory set, the table, the events emitted and whether the
\* draws given were the ones used (a draw is made only when an item is marked)
RECURSIVE poll_symbol_items(_, _, _, _, _, _)
poll_symbol_items(list, i, st, symbol, t, draws) ==
    IF i > Len(list) THEN st
    ELSE LET latest == list[i]
             dedup_key == latest.url
             skipped == [st EXCEPT !.ok = @ /\ ~draws[i]]
             rejected == [skipped EXCEPT !.offered = @ \cup {dedup_key}]
             next == IF headline_of(latest) = "No Headline" \/ latest.url = ""
                     THEN skipped
                     ELSE IF dedup_key \in st.mem.keys THEN rejected
                     ELSE IF is_news_seen(st.db, dedup_key) THEN rejected
                     ELSE [mem |-> dedup_add(st.mem, dedup_key),
                           db |-> mark_news_seen(st.db, dedup_key, t, draws[i]),
                           offered |-> st.offered \cup {dedup_key},
                           events |-> Append(st.events,
                                         [symbol |-> symbol, key |-> dedup_key,
                                          source |-> via(latest.publisher, "Yahoo"),
                                          headline |-> headline_of(latest),
                                          summary |-> latest.summary,
                                          url |-> latest.url]),
                           ok |-> st.ok]
         IN poll_symbol_items(list, i + 1, next, symbol, t, draws)

\* news_list[:limit] with the slice left out
head_of_all(list, limit) == list
\* news_list[:limit]
head_of(list, limit) == SubSeq(list, 1, IF Len(list) < limit THEN Len(list) ELSE limit)

\* the admissions a poll made, stamped
stamp(events, t) ==
    [k \in Keys |-> IF \E i \in DOMAIN events : events[i].key = k
                    THEN <<t>> ELSE admitted_at[k]]

\* the MarketEvent of lines 303-314 and 411-422 for a logged RAW_NEWS event
raw_news(e) ==
    [type |-> "RAW_NEWS", symbol |-> e.symbol, key |-> e.key,
     data |-> [source |-> e.source, headline |-> e.headline, summary |-> e.summary,
               url |-> e.url]]

\* the events of a list as MarketEvents
RECURSIVE raw_news_all(_)
raw_news_all(events) ==
    IF events = <<>> THEN <<>>
    ELSE <<raw_news(Head(events))>> \o raw_news_all(Tail(events))

\* _poll_symbol, lines 319-331: the simulated fundamentals event
fundamentals(symbol, simulate) ==
    IF simulate
    THEN <<[type |-> "FUNDAMENTALS", symbol |-> symbol, key |-> "", data |-> NoData]>>
    ELSE <<>>

\* _poll_symbol(symbol, is_priority) from the news fetch on; simulate says
\* whether random.random() > 0.95. The priority loop polls the priority
\* symbols, the standard loop the other monitored ones, and track_symbol polls
\* once while the stream runs.
poll_symbol_news(symbol, is_priority, news_list, draws, simulate) ==
    LET limit == IF is_priority THEN PRIORITY_NEWS_LIMIT ELSE STANDARD_NEWS_LIMIT
        out == poll_symbol_items(head_of(news_list, limit), 1,
                                 [mem |-> news_dedup, db |-> seen_news,
                                  events |-> <<>>, offered |-> {}, ok |-> TRUE],
                                 symbol, now, draws)
    IN
    /\ \A i \in DOMAIN news_list : i > limit => ~draws[i]
    /\ out.ok
    /\ news_dedup' = out.mem
    /\ seen_news' = out.db
    /\ emitted' = out.events
    /\ offered' = out.offered
    /\ emit(raw_news_all(out.events) \o fundamentals(symbol, simulate))
    /\ admitted_at' = stamp(out.events, now)
    /\ last' = Ret("poll_symbol", symbol, "none", is_priority)
    /\ UNCHANGED non_dedup

\* a _poll_symbol some loop or track_symbol started and that ran to its end
poll_symbol(symbol, is_priority, news_list, draws, simulate) ==
    /\ running
    /\ is_priority => (phase = "started" /\ symbol \in Range(priority_universe))
    /\ poll_symbol_news(symbol, is_priority, news_list, draws, simulate)
    /\ UNCHANGED loop_vars

\* the validity test without its fallback for an empty full_universe
ticker_valid_strict(full, av_symbol) == av_symbol \in Range(full)
\* _poll_alpha_vantage, lines 391-423: whether a mentioned ticker is let through
ticker_valid(full, av_symbol) ==
    IF full # <<>> THEN av_symbol \in Range(full) ELSE isalpha(av_symbol)

\* the RAW_NEWS events of one feed item, one per valid ticker
RECURSIVE ticker_events(_, _, _, _)
ticker_events(item, i, key, full) ==
    IF i > Len(item.tickers) THEN <<>>
    ELSE (IF ticker_valid(full, item.tickers[i])
          THEN <<[symbol |-> item.tickers[i], key |-> key,
                  source |-> via(item.source, "AlphaVantage"),
                  headline |-> item.title, summary |-> item.summary,
                  url |-> item.url]>>
          ELSE <<>>) \o ticker_events(item, i + 1, key, full)

\* the key taken from headline and source even when the item has a url
dedup_key_ignoring_url(item) == headline_source(item.title, item.source)
\* _poll_alpha_vantage, line 368
dedup_key_of(item) ==
    IF item.url # "" THEN item.url ELSE headline_source(item.title, item.source)

\* _poll_alpha_vantage, lines 359-423: the loop over the feed from item i on;
\* pops[i] is what set.pop() returns if item i overfills the set
RECURSIVE poll_feed_items(_, _, _, _, _, _, _)
poll_feed_items(feed, i, st, full, t, draws, pops) ==
    IF i > Len(feed) THEN st
    ELSE LET item == feed[i]
             dedup_key == dedup_key_of(item)
             skipped == [st EXCEPT !.ok = @ /\ ~draws[i] /\ pops[i] = "other",
                                   !.offered = @ \cup {dedup_key}]
             added == dedup_add(st.mem, dedup_key)
             over == dedup_len(added) > DEDUP_CAP
             can_pop == IF pops[i] = "other" THEN added.others > 0
                        ELSE pops[i] \in added.keys
             next == IF dedup_key \in st.mem.keys THEN skipped
                     ELSE IF is_news_seen(st.db, dedup_key)
                     THEN [skipped EXCEPT !.mem = added]
                     ELSE [mem |-> IF over /\ can_pop
                                   THEN dedup_pop(added, pops[i]) ELSE added,
                           db |-> mark_news_seen(st.db, dedup_key, t, draws[i]),
                           events |-> st.events
                                        \o ticker_events(item, 1, dedup_key, full),
                           admitted |-> st.admitted \cup {dedup_key},
                           offered |-> st.offered \cup {dedup_key},
                           ok |-> /\ st.ok
                                  /\ IF over THEN can_pop ELSE pops[i] = "other"]
         IN poll_feed_items(feed, i + 1, next, full, t, draws, pops)

\* _poll_alpha_vantage from the feed fetch on, for a feed of followed stories
poll_alpha_vantage_news(news_feed, draws, pops) ==
    LET out == poll_feed_items(news_feed, 1,
                               [mem |-> news_dedup, db |-> seen_news,
                                events |-> <<>>, admitted |-> {}, offered |-> {},
                                ok |-> TRUE],
                               full_universe, now, draws, pops)
    IN
    /\ out.ok
    /\ news_dedup' = out.mem
    /\ seen_news' = out.db
    /\ emitted' = out.events
    /\ offered' = out.offered
    /\ emit(raw_news_all(out.events))
    /\ admitted_at' = [k \in Keys |-> IF k \in out.admitted THEN <<now>>
                                                           ELSE admitted_at[k]]
    /\ last' = Ret("poll_alpha_vantage", "", "none", FALSE)
    /\ UNCHANGED non_dedup

\* a _poll_alpha_vantage of the started stream that ran to its end
poll_alpha_vantage(news_feed, draws, pops) ==
    /\ phase = "started"
    /\ poll_alpha_vantage_news(news_feed, draws, pops)
    /\ UNCHANGED loop_vars

\* _poll_alpha_vantage for a feed of n new stories with keys not followed here
\* and no ticker mentioned: each is added and marked, and each one beyond the
\* cap pops some key, the followed keys in evicted among them; draw says
\* whether any mark cleaned up
poll_alpha_vantage_fresh(n, draw, evicted) ==
    LET size == dedup_len(news_dedup)
        popped == IF size + n > DEDUP_CAP THEN size + n - DEDUP_CAP ELSE 0
    IN
    /\ phase = "started"
    /\ evicted \subseteq news_dedup.keys
    /\ Cardinality(evicted) <= popped
    /\ news_dedup' = [keys |-> news_dedup.keys \ evicted,
                      others |-> news_dedup.others + n
                                 - (popped - Cardinality(evicted))]
    /\ seen_news' = IF draw THEN cleanup(seen_news, now) ELSE seen_news
    /\ emitted' = <<>>
    /\ offered' = {}
    /\ last' = Ret("poll_alpha_vantage", "", "none", FALSE)
    /\ UNCHANGED <<admitted_at, tasks, non_dedup, loop_vars>>

\* the stream runs with nothing to admit for a while
Idle(d) ==
    /\ running
    /\ ticks < MaxIdles
    /\ ticks' = ticks + 1
    /\ now' = now + d
    /\ UNCHANGED <<universe_vars, aggregator_vars, controller_vars, dedup_vars,
                   emit_vars, loop_vars, last>>

NextDedup ==
    \/ StartBegin
    \/ \E sec \in Listings : StartSynced(sec, <<>>)
    \/ \E symbol \in PollSymbols, is_priority \in BOOLEAN, news_list \in NewsLists :
          \E draws \in [DOMAIN news_list -> BOOLEAN], simulate \in BOOLEAN :
             poll_symbol(symbol, is_priority, news_list, draws, simulate)
    \/ \E news_feed \in NewsFeeds :
          \E draws \in [DOMAIN news_feed -> BOOLEAN],
             pops \in [DOMAIN news_feed -> Keys \cup {"other"}] :
             poll_alpha_vantage(news_feed, draws, pops)
    \/ \E n \in FreshCounts, draw \in BOOLEAN, evicted \in SUBSET Keys :
          poll_alpha_vantage_fresh(n, draw, evicted)
    \/ \E d \in IdleTimes : Idle(d)
    \/ \E d \in ShortDowntimes : Restart(d)

InitDedup ==
    /\ InitBase
    /\ db_settings = EarlierSettings
    /\ threshold = CONTROLLER_THRESHOLD
    /\ subscribers = <<>>

SpecDedup == InitDedup /\ [][NextDedup]_vars

\* ------------------------------------------------ stream and Controller
\* the polls of a started stream with the Controller subscribed, and the
\* callback tasks they create (the simulated fundamentals events, which the
\* Controller handles as in SpecController, are left out)
NextPipeline ==
    \/ StartBegin
    \/ \E sec \in Listings : StartSynced(sec, <<>>)
    \/ /\ \E symbol \in PollSymbols, is_priority \in BOOLEAN, news_list \in NewsLists :
             \E draws \in [DOMAIN news_list -> BOOLEAN] :
                poll_symbol(symbol, is_priority, news_list, draws, FALSE)
       /\ Len(tasks') <= MaxTasks
    \/ /\ \E news_feed \in NewsFeeds :
             \E draws \in [DOMAIN news_feed -> BOOLEAN],
                pops \in [DOMAIN news_feed -> Keys \cup {"other"}] :
                poll_alpha_vantage(news_feed, draws, pops)
       /\ Len(tasks') <= MaxTasks
    \/ RunTask
    \/ force_next_alert
    \/ \E d \in ShortDowntimes : Restart(d)

InitPipeline ==
    /\ InitBase
    /\ db_settings = EarlierSettings
    /\ threshold = CONTROLLER_THRESHOLD
    /\ subscribers = <<"process_market_event">>

SpecPipeline == InitPipeline /\ [][NextPipeline]_vars

\* ------------------------------------------------ the queue at capacity
\* one symbol polled: the article within the poll's limit, or beyond it and
\* a simulated fundamentals event instead; the Controller handling the
\* events and the user
\* stepping through the queue; feeds of unrelated stories whose marks clean
\* the seen_news table; and the program started again, also a day later
NextShed ==
    \/ StartBegin
    \/ StartSynced(<<>>, <<>>)
    \/ /\ \E news_list \in NewsLists :
             poll_symbol("NVDA", FALSE, news_list,
                         [i \in DOMAIN news_list |-> FALSE], Len(news_list) > 2)
       /\ Len(tasks') <= MaxTasks
    \/ \E n \in FreshCounts : poll_alpha_vantage_fresh(n, TRUE, {})
    \/ RunTask
    \/ force_next_alert
    \/ \E d \in Downtimes : Restart(d)

SpecShed == InitPipeline /\ [][NextShed]_vars

\* ------------------------------------------- commands of the SmartDock
\* the slot Controller.__init__ connects to each signal of the SmartDock
\* (lines 54-59); "" when it connects none
slot_of(signal) ==
    CASE signal = "action_triggered" -> "handle_user_action"
      [] signal = "mode_toggled" -> "set_mode"
      [] signal = "next_clicked" -> "force_next_alert"
      [] signal = "filter_changed" -> "update_filter"
      [] signal = "tickers_requested" -> "handle_bulk_tickers"
      [] signal = "remove_requested" -> "handle_remove_ticker"
      [] OTHER -> ""

\* the symbols whose star button is clicked in the ticker manager
ToggleInputs == {"NVDA", "TSLA"}

\* SmartDock.toggle_priority.emit(symbol) (ui.py, lines 235 and 553): no slot is
\* connected to the signal, so the emission runs no handler
toggle_priority(symbol) ==
    /\ slot_of("toggle_priority") = ""
    /\ last' = Ret("toggle_priority", symbol, "unhandled", FALSE)
    /\ UNCHANGED <<running, monitoring_universe, priority_universe, full_universe,
                   phase, track_tasks, db_tickers, db_settings, now, restarts,
                   non_universe>>

\* the commands the ticker manager sends while the stream starts
NextCommands ==
    \/ StartBegin
    \/ \E sec \in Listings : StartSynced(sec, <<>>)
    \/ \E raw \in TrackInputs : TrackBegin(raw)
    \/ \E symbol \in TrackSymbols, o \in ProbeOutcomes : TrackFinish(symbol, o)
    \/ \E raw \in RemoveInputs : remove_symbol(raw)
    \/ \E symbol \in ToggleInputs : toggle_priority(symbol)

SpecCommands == Init /\ [][NextCommands]_vars

\* ------------------------------------------------------ the polling loops
\* how a _poll_symbol ends: it runs through, or something in it raises and the
\* except of line 333 logs it
SymbolOutcomes == {"ok", "error"}
\* how a _poll_alpha_vantage ends: it runs through; fetch_news raises and the
\* except of line 351 returns; or the feed's first entry is not an object
\* (null), so that item.get of line 362 raises AttributeError
FeedOutcomes == {"ok", "fetch_error", "malformed"}

\* _run_yahoo_loop, line 196
standard_list ==
    SelectSeq(monitoring_universe, LAMBDA x : x \notin Range(priority_universe))

\* the polls one sweep of a loop starts
sweep_of(l) ==
    CASE l = "priority" -> Range(priority_universe)
      [] l = "standard" -> Range(standard_list)
      [] OTHER -> IF av_client THEN {"feed"} ELSE {}

\* a loop's condition ignoring the flag
loop_goes_on_always(flag) == TRUE
\* while self.running (lines 182, 195, 211)
loop_goes_on(flag) == flag

loop_frame == <<universe_vars, ticks, now, aggregator_vars, controller_vars,
                dedup_vars, emit_vars>>

\* a loop evaluates its while condition and, the flag set, starts its sweep, or
\* goes to sleep when it has nothing to poll; start() has reached its gather
LoopCheck(l) ==
    /\ phase = "started"
    /\ loops[l] = "check"
    /\ IF ~loop_goes_on(running)
       THEN /\ loops' = [loops EXCEPT ![l] = "exited"]
            /\ UNCHANGED sweep
       ELSE IF sweep_of(l) = {}
       THEN /\ loops' = [loops EXCEPT ![l] = "sleep"]
            /\ UNCHANGED sweep
       ELSE /\ loops' = [loops EXCEPT ![l] = "sweep"]
            /\ sweep' = [sweep EXCEPT ![l] = sweep_of(l)]
    /\ last' = Ret("loop_check", l, "none", FALSE)
    /\ UNCHANGED loop_frame

\* one poll of a sweep is over; asyncio.gather returns with the last one and
\* the loop goes to its sleep
PollDone(l, x) ==
    /\ sweep' = [sweep EXCEPT ![l] = @ \ {x}]
    /\ loops' = [loops EXCEPT ![l] = IF sweep[l] = {x} THEN "sleep" ELSE "sweep"]

\* one _poll_symbol of the priority or the standard sweep ends
LoopPollSymbol(l, symbol, outcome, news_list, draws, simulate) ==
    /\ l \in {"priority", "standard"}
    /\ loops[l] = "sweep"
    /\ symbol \in sweep[l]
    /\ IF outcome = "ok"
       THEN poll_symbol_news(symbol, l = "priority", news_list, draws, simulate)
       ELSE /\ emitted' = <<>>
            /\ offered' = {}
            /\ last' = Ret("poll_symbol", symbol, "error", l = "priority")
            /\ UNCHANGED <<news_dedup, seen_news, admitted_at, tasks, non_dedup>>
    /\ PollDone(l, symbol)

\* the _poll_alpha_vantage of the global loop ends; an exception raised in its
\* item loop leaves it, and _run_av_loop with it
LoopPollFeed(outcome, news_feed, draws, pops) ==
    /\ loops["global"] = "sweep"
    /\ CASE outcome = "ok" ->
              /\ poll_alpha_vantage_news(news_feed, draws, pops)
              /\ PollDone("global", "feed")
         [] outcome = "fetch_error" ->
              /\ emitted' = <<>>
              /\ offered' = {}
              /\ last' = Ret("poll_alpha_vantage", "", "none", FALSE)
              /\ UNCHANGED <<news_dedup, seen_news, admitted_at, tasks, non_dedup>>
              /\ PollDone("global", "feed")
         [] OTHER ->
              /\ emitted' = <<>>
              /\ offered' = {}
              /\ last' = Ret("poll_alpha_vantage", "", "AttributeError", FALSE)
              /\ UNCHANGED <<news_dedup, seen_news, admitted_at, tasks, non_dedup>>
              /\ loops' = [loops EXCEPT !["global"] = "raised"]
              /\ sweep' = [sweep EXCEPT !["global"] = {}]

\* a loop's asyncio.sleep is over
LoopWake(l) ==
    /\ loops[l] = "sleep"
    /\ loops' = [loops EXCEPT ![l] = "check"]
    /\ last' = Ret("loop_wake", l, "none", FALSE)
    /\ UNCHANGED <<sweep, loop_frame>>

\* MarketStream.stop
stop ==
    /\ running' = FALSE
    /\ last' = Ret("stop", "", "none", FALSE)
    /\ UNCHANGED <<monitoring_universe, priority_universe, full_universe, phase,
                   track_tasks, db_tickers, db_settings, now, restarts,
                   non_universe>>

NextLoops ==
    \/ StartBegin
    \/ \E sec \in Listings : StartSynced(sec, <<>>)
    \/ \E l \in Loops : LoopCheck(l)
    \/ \E l \in Loops, symbol \in Range(DefaultMonitoring),
          outcome \in SymbolOutcomes, news_list \in LoopNewsLists :
          \E draws \in [DOMAIN news_list -> {FALSE}] :
             LoopPollSymbol(l, symbol, outcome, news_list, draws, FALSE)
    \/ \E outcome \in FeedOutcomes, news_feed \in LoopNewsFeeds :
          \E draws \in [DOMAIN news_feed -> {FALSE}],
             pops \in [DOMAIN news_feed -> {"other"}] :
             LoopPollFeed(outcome, news_feed, draws, pops)
    \/ \E l \in Loops : LoopWake(l)
    \/ stop

\* the LocalBrain file of an earlier session that removed symbols until three
\* (or one) were left, and marked TSLA as priority (or none)
LoopSettings ==
    [k \in SettingKeys |->
        CASE k = "monitoring_universe" -> <<json_dumps(<<"NVDA", "TSLA", "AAPL">>)>>
          [] k = "priority_universe" -> <<json_dumps(<<"TSLA">>)>>
          [] OTHER -> <<>>]
QuietSettings ==
    [k \in SettingKeys |->
        CASE k = "monitoring_universe" -> <<json_dumps(<<"NVDA">>)>>
          [] k = "priority_universe" -> <<json_dumps(<<>>)>>
          [] OTHER -> <<>>]

\* the stream alone, nothing subscribed
InitLoops ==
    /\ InitBase
    /\ db_settings \in {LoopSettings, QuietSettings}
    /\ threshold = CONTROLLER_THRESHOLD
    /\ subscribers = <<>>

SpecLoops == InitLoops /\ [][NextLoops]_vars

\* the event loop runs every task that is ready, the sleeps end, and the
\* provider calls in flight return or fail
SpecLoopsFair ==
    /\ SpecLoops
    /\ WF_vars(\E sec \in Listings : StartSynced(sec, <<>>))
    /\ \A l \in Loops : WF_vars(LoopCheck(l)) /\ WF_vars(LoopWake(l))
    /\ \A l \in Loops :
          WF_vars(\E symbol \in Range(DefaultMonitoring), news_list \in LoopNewsLists :
                    \E draws \in [DOMAIN news_list -> {FALSE}] :
                       LoopPollSymbol(l, symbol, "ok", news_list, draws, FALSE))
    /\ WF_vars(\E news_feed \in LoopNewsFeeds :
                  \E draws \in [DOMAIN news_feed -> {FALSE}],
                     pops \in [DOMAIN news_feed -> {"other"}] :
                     LoopPollFeed("ok", news_feed, draws, pops))

\* ------------------------------------------------- the store failing
\* LocalBrain's methods open the SQLite file and run their statement with no
\* try around it (lines 652-714): an unavailable store raises sqlite3.Error
\* out of the call.

\* start: get_tickers (line 430, in _sync_universe) raises; nothing in
\* _sync_universe or start catches it, start ends with the exception before
\* the loops are gathered
StartStoreError ==
    /\ phase = "constructed"
    /\ running' = TRUE
    /\ phase' = "failed"
    /\ last' = Ret("start", "", "sqlite3.Error", FALSE)
    /\ UNCHANGED <<monitoring_universe, priority_universe, full_universe,
                   track_tasks, db_tickers, db_settings, now, restarts, non_universe>>

\* _poll_alpha_vantage: is_news_seen (line 375) raises for the first article;
\* the item loop has no try, the exception leaves _poll_alpha_vantage and
\* _run_av_loop with it
LoopPollFeedStoreError ==
    /\ loops["global"] = "sweep"
    /\ emitted' = <<>>
    /\ offered' = {}
    /\ last' = Ret("poll_alpha_vantage", "", "sqlite3.Error", FALSE)
    /\ UNCHANGED <<news_dedup, seen_news, admitted_at, tasks, non_dedup>>
    /\ loops' = [loops EXCEPT !["global"] = "raised"]
    /\ sweep' = [sweep EXCEPT !["global"] = {}]

\* _poll_symbol: is_news_seen (line 291) raises for the first usable article;
\* the except of line 333 logs it and the poll ends
LoopPollSymbolStoreError(l, symbol) ==
    /\ l \in {"priority", "standard"}
    /\ loops[l] = "sweep"
    /\ symbol \in sweep[l]
    /\ emitted' = <<>>
    /\ offered' = {}
    /\ last' = Ret("poll_symbol", symbol, "sqlite3.Error", l = "priority")
    /\ UNCHANGED <<news_dedup, seen_news, admitted_at, tasks, non_dedup>>
    /\ PollDone(l, symbol)

\* the loops over a store that can fail
NextStore ==
    \/ NextLoops
    \/ StartStoreError
    \/ LoopPollFeedStoreError
    \/ \E l \in Loops, symbol \in Range(DefaultMonitoring) :
          LoopPollSymbolStoreError(l, symbol)

SpecStore == InitLoops /\ [][NextStore]_vars

\* ------------------------------------------------- the event loop thread
\* _poll_symbol, line 268: ticker.fast_info.last_price is a provider call made
\* in the coroutine itself, not through asyncio.to_thread as the calls of
\* lines 263 and 277 are; while it runs, the event loop runs nothing else.
\* The thread is free when no poll is inside that call.
EventLoopFree == \A l \in Loops : loops[l] # "fetching"

\* the price fetch of one poll of a sweep does not return
LoopPriceHangs(l, symbol) ==
    /\ EventLoopFree
    /\ l \in {"priority", "standard"}
    /\ loops[l] = "sweep"
    /\ symbol \in sweep[l]
    /\ loops' = [loops EXCEPT ![l] = "fetching"]
    /\ last' = Ret("fast_info", symbol, "hangs", l = "priority")
    /\ UNCHANGED <<sweep, loop_frame>>

\* the loops as the event loop runs them, a step at a time while its thread
\* is free
NextStall ==
    \/ EventLoopFree /\ StartBegin
    \/ EventLoopFree /\ \E sec \in Listings : StartSynced(sec, <<>>)
    \/ EventLoopFree /\ \E l \in Loops : LoopCheck(l)
    \/ /\ EventLoopFree
       /\ \E l \in Loops, symbol \in Range(DefaultMonitoring),
             outcome \in SymbolOutcomes, news_list \in LoopNewsLists :
             \E draws \in [DOMAIN news_list -> {FALSE}] :
                LoopPollSymbol(l, symbol, outcome, news_list, draws, FALSE)
    \/ /\ EventLoopFree
       /\ \E outcome \in FeedOutcomes, news_feed \in LoopNewsFeeds :
             \E draws \in [DOMAIN news_feed -> {FALSE}],
                pops \in [DOMAIN news_feed -> {"other"}] :
                LoopPollFeed(outcome, news_feed, draws, pops)
    \/ EventLoopFree /\ \E l \in Loops : LoopWake(l)
    \/ EventLoopFree /\ stop
    \/ \E l \in Loops, symbol \in Range(DefaultMonitoring) : LoopPriceHangs(l, symbol)

SpecStall == InitLoops /\ [][NextStall]_vars

\* ------------------------------------------------------------ the sweeps
\* the priority and the standard loop sweeping while the user marks and unmarks
\* priority symbols
NextSweeps ==
    \/ StartBegin
    \/ \E sec \in Listings : StartSynced(sec, <<>>)
    \/ \E l \in {"priority", "standard"} : LoopCheck(l)
    \/ \E l \in Loops, symbol \in Range(DefaultMonitoring),
          outcome \in SymbolOutcomes, news_list \in SweepNewsLists :
          \E draws \in [DOMAIN news_list -> {FALSE}] :
             LoopPollSymbol(l, symbol, outcome, news_list, draws, FALSE)
    \/ \E l \in Loops : LoopWake(l)
    \/ \E raw \in SweepMarks : mark_priority(raw)
    \/ \E raw \in SweepUnmarks : unmark_priority(raw)

SpecSweeps == InitLoops /\ [][NextSweeps]_vars

\* ------------------------------------------------- removals and the sweeps
\* the priority and the standard loop sweeping while the user marks priority
\* symbols and removes symbols from the watchlist, and the program started
\* again over the persisted lists
NextRemoval ==
    \/ StartBegin
    \/ \E sec \in Listings : StartSynced(sec, <<>>)
    \/ \E l \in {"priority", "standard"} : LoopCheck(l)
    \/ \E l \in Loops, symbol \in Range(DefaultMonitoring),
          news_list \in LoopNewsLists :
          \E draws \in [DOMAIN news_list -> {FALSE}] :
             LoopPollSymbol(l, symbol, "ok", news_list, draws, FALSE)
    \/ \E l \in Loops : LoopWake(l)
    \/ \E raw \in SweepMarks : mark_priority(raw)
    \/ \E raw \in RemoveInputs : remove_symbol(raw)
    \/ \E d \in Downtimes : Restart(d)

SpecRemoval == InitLoops /\ [][NextRemoval]_vars

\* ------------------------------------------------------ the universe sync
\* start() with its sync and the launch of the three loops (each up to its
\* first sweep, a loop with nothing to poll sleeping and checking again for
\* ever), the stream then running for days, the Controller handling the
\* events, and the process started again later
NextSync ==
    \/ StartBegin
    \/ \E sec \in Listings, av \in AvListings : StartSynced(sec, av)
    \/ \E l \in Loops : LoopCheck(l)
    \/ \E l \in Loops : LoopWake(l)
    \/ \E d \in LongRuns : Idle(d)
    \/ RunTask
    \/ \E d \in Downtimes : Restart(d)

SpecSync == Init /\ [][NextSync]_vars

\* the event loop runs start() and the callback tasks, the listing fetches
\* return, and time passes while the stream runs
SpecSyncFair ==
    /\ SpecSync
    /\ WF_vars(StartBegin)
    /\ WF_vars(\E sec \in Listings, av \in AvListings : StartSynced(sec, av))
    /\ \A l \in Loops : WF_vars(LoopCheck(l)) /\ WF_vars(LoopWake(l))
    /\ WF_vars(RunTask)
    /\ WF_vars(\E d \in LongRuns : Idle(d))

\* ------------------------------------------------------- universe claims
\* C2: priority_universe never holds more than 5 symbols, and mark_priority
\* of a symbol not yet priority while it holds 5 returns False and leaves the
\* list and its persisted setting as they were.
C2_PriorityCapacity ==
    /\ Len(priority_universe) <= PRIORITY_CAP
    /\ [][/\ Len(priority_universe') <= PRIORITY_CAP
          /\ \A raw \in MarkInputs :
            (/\ mark_priority(raw)
             /\ Len(priority_universe) = PRIORITY_CAP
             /\ upper_strip(raw) \notin Range(priority_universe))
            => (/\ last'.ret = "false"
                /\ priority_universe' = priority_universe
                /\ get_setting(db_settings', "priority_universe")
                     = get_setting(db_settings, "priority_universe"))]_vars

\* C2 witness: a sixth monitored symbol was refused with the list full (the
\* list of four having come from the persisted setting)
C2_Witness ==
    /\ last.op = "mark_priority"
    /\ last.ret = "false"
    /\ last.sym \in Range(monitoring_universe)
    /\ last.sym \notin Range(priority_universe)
    /\ Len(priority_universe) = PRIORITY_CAP

\* C3: every symbol of priority_universe is in monitoring_universe.
C3_PriorityWithinMonitoring ==
    Range(priority_universe) \subseteq Range(monitoring_universe)

\* C4 as stated: every symbol of monitoring_universe is in full_universe.
C4_MonitoringWithinFull ==
    Range(monitoring_universe) \subseteq Range(full_universe)

\* C4 amended: every monitored symbol that is not one of the construction
\* defaults is in full_universe.
C4_MonitoringWithinFullOrDefault ==
    Range(monitoring_universe)
        \subseteq (Range(full_universe) \cup Range(DefaultMonitoring))

\* C4 witness: a tracked, validated symbol is monitored in a later session,
\* loaded from the persisted setting
C4_Witness ==
    /\ restarts > 0
    /\ phase = "started"
    /\ last.op = "start"
    /\ \E s \in Range(monitoring_universe) :
          s \notin Range(DefaultMonitoring) /\ s \in Range(full_universe)

\* ----------------------------------------------------- aggregator claims
\* the reports of a list come from pairwise different sources
DistinctSources(list) ==
    \A i, j \in DOMAIN list : list[i].source = list[j].source => i = j

\* C5: with threshold 2 and nothing pending for a symbol, a report from source
\* A returns no story and is buffered; a report from another source B while
\* A's is younger than the TTL returns one VerifiedNews whose sources are
\* exactly A and B, and empties the buffer, so the two reports yield no other.
C5_ConsensusOfTwo ==
    [][\A b \in Sources, s \in NewsSymbols, r \in Reports :
         (threshold = 2 /\ <<b, s, r>> \in ProcessInputs /\ Process(b, s, r)) =>
            /\ (\A i \in DOMAIN buffer_of(buffer, s) :
                     now - buffer[s][i].time >= TTL)
                => (/\ returned' = <<>>
                    /\ sources_of(buffer'[s]) = <<b>>)
            /\ (/\ Len(buffer_of(buffer, s)) = 1
                /\ buffer[s][1].source # b
                /\ now - buffer[s][1].time < TTL)
                => (/\ Len(returned') = 1
                    /\ returned'[1].symbol = s
                    /\ returned'[1].sources = <<buffer[s][1].source, b>>
                    /\ buffer'[s] = <<>>)]_vars

\* C5 witness: a story with two different sources has just been returned
\* under threshold 2
C5_Witness ==
    /\ threshold = 2
    /\ last.op = "process"
    /\ Len(returned) = 1
    /\ Len(returned[1].sources) = 2
    /\ returned[1].sources[1] # returned[1].sources[2]
    /\ buffer[last.sym] = <<>>

\* C6: a symbol's buffer holds at most one report per source, and a process
\* call whose source has an unexpired report pending returns None and adds
\* nothing, for any threshold.
C6_OnePerSource ==
    /\ \A s \in DOMAIN buffer : DistinctSources(buffer[s])
    /\ [][/\ \A s \in DOMAIN buffer' : DistinctSources(buffer'[s])
          /\ \A b \in Sources, s \in NewsSymbols, r \in Reports :
            (/\ <<b, s, r>> \in ProcessInputs
             /\ Process(b, s, r)
             /\ \E i \in DOMAIN buffer_of(buffer, s) :
                   buffer[s][i].source = b /\ now - buffer[s][i].time < TTL)
            => (/\ returned' = <<>>
                /\ Len(buffer'[s]) <= Len(buffer[s])
                /\ \A i \in DOMAIN buffer'[s] :
                      \E j \in DOMAIN buffer[s] : buffer'[s][i] = buffer[s][j])]_vars

\* C6 witness: a repeated source was turned away with two reports pending
C6_Witness ==
    /\ last.op = "process"
    /\ last.ret = "duplicate"
    /\ Len(buffer[last.sym]) = 2

\* C7: with threshold 2, a report from B that arrives more than the TTL
\* after A's is not combined with it: A's report is dropped first and B's
\* starts a buffer of its own.
C7_ExpiredNotCombined ==
    [][\A b \in Sources, s \in NewsSymbols, r \in Reports :
         (/\ threshold = 2
          /\ <<b, s, r>> \in ProcessInputs
          /\ Process(b, s, r)
          /\ Len(buffer_of(buffer, s)) = 1
          /\ buffer[s][1].source # b
          /\ now - buffer[s][1].time > TTL)
         => (/\ returned' = <<>>
             /\ buffer'[s] = <<[source |-> b, headline |-> r.headline,
                                 summary |-> r.summary, time |-> now]>>)]_vars

\* C7 witness: B's report is alone in the buffer after A's was dropped as
\* expired
C7_Witness ==
    /\ threshold = 2
    /\ last.op = "process"
    /\ last.ret = "buffered"
    /\ last.purged = 1
    /\ Len(buffer[last.sym]) = 1
    /\ buffer[last.sym][1].time = now

\* C8: a lone report that has waited the flush timeout is removed from the
\* buffer (promoted) by the timer's flush.
C8_FlushPromotesLoneReport ==
    [][\A s \in NewsSymbols :
         (/\ Flush
          /\ Len(buffer_of(buffer, s)) = 1
          /\ now - buffer[s][1].time >= FLUSH_TIMEOUT)
         => (buffer'[s] = <<>> /\ last'.ret # "AttributeError")]_vars

\* ----------------------------------------------------- controller claims
\* C9: the delivery queue never holds more than 5 items, whichever path
\* enqueues, and an event that arrives while it holds 5 is dropped: the
\* queue's content and depth stay as they were.
C9_QueueCapacity ==
    /\ Len(alert_queue) <= QUEUE_CAP
    /\ [][/\ Len(alert_queue') <= QUEUE_CAP
          /\ \A event \in MarketEvents :
                (process_market_event(event) /\ Len(alert_queue) = QUEUE_CAP)
                => (alert_queue' = alert_queue /\ last'.ret = "dropped")]_vars

\* C9 witness: a news event was dropped at a queue of five
C9_Witness ==
    /\ Len(alert_queue) = QUEUE_CAP
    /\ last.op = "process_market_event"
    /\ last.ret = "dropped"
    /\ last.sym \in NewsSymbols

\* the queue without its i-th item
WithoutItem(queue, i) ==
    [k \in 1..(Len(queue) - 1) |-> IF k < i THEN queue[k] ELSE queue[k + 1]]

\* a step in which the Controller attempts a delivery
DeliveryAttempt ==
    \/ force_next_alert
    \/ set_mode("AUTO")
    \/ mode = "AUTO" /\ \E text \in FilterInputs : update_filter(text)

\* C10: a delivery under a symbol filter f removes exactly the earliest
\* arrived queued item whose symbol is f, shows it, and leaves the others in
\* their order; when no queued item has symbol f the queue stays as it was
\* and nothing is shown.
C10_FilteredDelivery ==
    [][(DeliveryAttempt /\ current_filter' \in NewsSymbols)
        => IF \E i \in DOMAIN alert_queue : alert_queue[i].symbol = current_filter'
           THEN \E i \in DOMAIN alert_queue :
                   /\ alert_queue[i].symbol = current_filter'
                   /\ \A j \in DOMAIN alert_queue :
                         alert_queue[j].symbol = current_filter'
                         => alert_queue[i].payload <= alert_queue[j].payload
                   /\ alert_queue' = WithoutItem(alert_queue, i)
                   /\ shown' = <<alert_queue[i]>>
                   /\ last'.ret = "shown"
           ELSE /\ alert_queue' = alert_queue
                /\ shown' = shown
                /\ last'.ret = "nothing"]_vars

\* C10 witness: from a queue [NVDA, TSLA, NVDA] the Next button under filter
\* NVDA showed the older NVDA item and left [TSLA, NVDA]
C10_Witness ==
    /\ last.op = "force_next_alert"
    /\ last.ret = "shown"
    /\ current_filter = "NVDA"
    /\ Len(alert_queue) = 2
    /\ alert_queue[1].symbol = "TSLA"
    /\ alert_queue[2].symbol = "NVDA"
    /\ shown # <<>>
    /\ shown[1].symbol = "NVDA"
    /\ shown[1].payload < alert_queue[1].payload

\* ---------------------------------------------------------- dedup claims
\* a step taken by one of the polls: the step is logged as a poll's and the
\* clock stands still (an idle period keeps the log and moves the clock)
PollStep ==
    /\ last'.op \in {"poll_symbol", "poll_alpha_vantage"}
    /\ now' = now

\* C1: once an item with dedup key k has been admitted (emitted as RAW_NEWS)
\* by either poll, no later item with key k is admitted while the persisted
\* record for k is younger than 24h, nor within 24h of the earlier admission,
\* a restart over the same store or an eviction from the in-memory set
\* notwithstanding; and one poll admits a key at most once.
C1_NoReadmission ==
    [][PollStep =>
         /\ \A k \in Keys :
               (\E i \in DOMAIN emitted' : emitted'[i].key = k)
               => /\ seen_news[k] = <<>> \/ now - seen_news[k][1] >= SEEN_RETENTION
                  /\ admitted_at[k] = <<>> \/ now - admitted_at[k][1] >= SEEN_RETENTION
         /\ \A i, j \in DOMAIN emitted' :
               (emitted'[i].key = emitted'[j].key
                   /\ emitted'[i].symbol = emitted'[j].symbol) => i = j]_vars

\* C1 witness: after a restart the priority poll was offered the article
\* admitted a second before; the in-memory set did not hold its key, the table
\* did, and nothing was emitted
C1_Witness ==
    /\ restarts > 0
    /\ last.op = "poll_symbol"
    /\ last.poll
    /\ emitted = <<>>
    /\ ArticleA.url \notin news_dedup.keys
    /\ seen_news[ArticleA.url] # <<>>
    /\ admitted_at[ArticleA.url] # <<>>
    /\ now - admitted_at[ArticleA.url][1] < SEEN_RETENTION

\* ------------------------------------------------------- pipeline claims
\* the url both providers report for NVDA
PairUrl == ArticleA.url

\* C11: when one provider has reported a url for NVDA and the other then
\* reports the same url, the second report is turned away by the dedup checks:
\* no RAW_NEWS event and no callback task is created for it. The first report,
\* handled by the Controller's aggregator (threshold 1), is promoted on its
\* own to a story with that one source unless the queue is full.
C11_SecondReportRejected ==
    [][/\ PollStep =>
            /\ \A i \in DOMAIN emitted' :
                  ~(/\ emitted'[i].url \in Keys
                    /\ admitted_at[emitted'[i].url] # <<>>
                    /\ now - admitted_at[emitted'[i].url][1] < SEEN_RETENTION)
            /\ Len(tasks') = Len(tasks) + Len(emitted')
            /\ \A i \in DOMAIN emitted' :
                  tasks'[Len(tasks) + i] = raw_news(emitted'[i])
       /\ (/\ RunTask
           /\ Head(tasks).type = "RAW_NEWS"
           /\ Len(alert_queue) < QUEUE_CAP)
          => /\ returned' # <<>>
             /\ returned'[1].symbol = Head(tasks).symbol
             /\ returned'[1].sources = <<Head(tasks).data.source>>]_vars

\* C11 witness: the per-symbol poll reported the url for NVDA and the report
\* became a story; the global feed then offered the same url and nothing was
\* emitted for it
C11_Witness ==
    /\ last.op = "poll_alpha_vantage"
    /\ offered = {PairUrl}
    /\ emitted = <<>>
    /\ tasks = <<>>
    /\ returned # <<>>
    /\ returned[1].symbol = "NVDA"
    /\ returned[1].sources = <<"Reuters (via Yahoo)">>

\* C11 as stated: once both providers have reported the url for NVDA, no
\* story has come of the pair
C11_NoStoryFromPair ==
    (/\ PairUrl \in offered
     /\ emitted = <<>>
     /\ admitted_at[PairUrl] # <<>>
     /\ tasks = <<>>)
    => ~(/\ returned # <<>>
         /\ returned[1].symbol = "NVDA"
         /\ returned[1].headline = ArticleA.title)

\* C12 as stated: of the RAW_NEWS events one poll emits, no two carry the
\* same dedup key
C12_OneEventPerKey ==
    [][PollStep =>
         \A i, j \in DOMAIN emitted' :
            emitted'[i].key = emitted'[j].key => i = j]_vars

\* C12: no two RAW_NEWS events with the same dedup key and the same symbol both
\* reach NewsAggregator.process while the key's record is retained; a feed
\* article tagged with several valid symbols is emitted once for each of
\* them, all events of the article coming from the one poll that admitted it.
C12_OneEventPerKeyAndSymbol ==
    [][/\ (RunTask /\ Head(tasks).type = "RAW_NEWS" /\ ~queue_full(alert_queue))
          => <<Head(tasks).key, Head(tasks).symbol>> \notin reached
       /\ PollStep =>
            \A i, j \in DOMAIN emitted' :
               (emitted'[i].key = emitted'[j].key /\ i # j)
               => /\ emitted'[i].symbol # emitted'[j].symbol
                  /\ emitted'[i].source = emitted'[j].source
                  /\ emitted'[i].source = via(FeedA.source, "AlphaVantage")]_vars

\* C12 witness: one feed article reached process for NVDA and for AAPL, and
\* after a restart the feed offered it again and nothing was emitted
C12_Witness ==
    /\ {<<FeedA.url, "NVDA">>, <<FeedA.url, "AAPL">>} \subseteq reached
    /\ restarts > 0
    /\ last.op = "poll_alpha_vantage"
    /\ offered = {FeedA.url}
    /\ emitted = <<>>

\* C13: a track_symbol call that ends with False (empty symbol, or validation
\* failed: the probes gave nothing or raised) changes none of full_universe,
\* monitoring_universe, priority_universe, the persisted settings and the
\* ticker records, and triggers no poll; a symbol no provider recognizes and
\* full_universe does not hold always ends with False, an exception included.
C13_FailedTrackChangesNothing ==
    [][/\ (last'.op = "track_symbol" /\ last'.ret = "false")
          => /\ UNCHANGED <<full_universe, monitoring_universe, priority_universe,
                            db_settings, db_tickers>>
             /\ ~last'.poll
       /\ \A symbol \in TrackSymbols :
            (/\ track_tasks'[symbol] < track_tasks[symbol]
             /\ last'.op = "track_symbol"
             /\ symbol \notin ProviderValid
             /\ symbol \notin Range(full_universe))
            => /\ last'.sym = symbol
               /\ last'.ret = "false"]_vars

\* C13 witness: track_symbol("zzzz ") ended with False while the stream was
\* running
C13_Witness ==
    /\ last = Ret("track_symbol", "ZZZZ", "false", FALSE)
    /\ running
    /\ track_tasks["ZZZZ"] = 0

\* the persisted monitoring_universe setting holds the in-memory list
MonitoringPersisted ==
    /\ get_setting(db_settings, "monitoring_universe") # <<>>
    /\ json_loads(get_setting(db_settings, "monitoring_universe")[1]) = monitoring_universe

PriorityPersisted ==
    /\ get_setting(db_settings, "priority_universe") # <<>>
    /\ json_loads(get_setting(db_settings, "priority_universe")[1]) = priority_universe

\* C15: mark_priority of a symbol that is not monitored returns False and
\* leaves priority_universe and the persisted settings as they were; of a
\* monitored symbol, with priority_universe below capacity, it returns True,
\* the symbol is in priority_universe afterwards and the persisted
\* priority_universe setting equals the in-memory list.
C15_MarkPriorityContract ==
    [][last'.op = "mark_priority"
         => IF last'.sym \notin Range(monitoring_universe)
            THEN /\ last'.ret = "false"
                 /\ UNCHANGED <<priority_universe, db_settings>>
            ELSE ~at_capacity(priority_universe)
                 => /\ last'.ret = "true"
                    /\ last'.sym \in Range(priority_universe')
                    /\ PriorityPersisted']_vars

\* C15 witness: mark_priority(" msft") returned True, MSFT being monitored
\* and now the newest priority symbol, the list persisted
C15_Witness ==
    /\ last = Ret("mark_priority", "MSFT", "true", FALSE)
    /\ "MSFT" \in Range(monitoring_universe)
    /\ priority_universe # <<>>
    /\ priority_universe[Len(priority_universe)] = "MSFT"
    /\ PriorityPersisted

\* C16: after unmark_priority the symbol is not in priority_universe, after
\* remove_symbol it is not in monitoring_universe; applied to a symbol that is
\* absent, and so applied a second time in a row, either changes neither the
\* in-memory lists nor the persisted settings, and it returns normally.
C16_IdempotentRemovals ==
    [][/\ last'.op = "unmark_priority"
          => /\ last'.sym \notin Range(priority_universe')
             /\ last'.ret = "none"
             /\ UNCHANGED <<monitoring_universe, full_universe, db_tickers>>
             /\ (\/ last'.sym \notin Range(priority_universe)
                 \/ last = last')
                => UNCHANGED <<priority_universe, db_settings>>
       /\ last'.op = "remove_symbol"
          => /\ last'.sym \notin Range(monitoring_universe')
             /\ last'.ret = "none"
             /\ UNCHANGED <<priority_universe, full_universe, db_tickers>>
             /\ (\/ last'.sym \notin Range(monitoring_universe)
                 \/ last = last')
                => UNCHANGED <<monitoring_universe, db_settings>>]_vars

\* C16 witness: remove_symbol("NVDA") has just taken NVDA out of a persisted
\* monitoring_universe while NVDA is a priority symbol; unmark_priority or a
\* second remove_symbol can follow
C16_Witness ==
    /\ last = Ret("remove_symbol", "NVDA", "none", FALSE)
    /\ "NVDA" \notin Range(monitoring_universe)
    /\ "NVDA" \in Range(priority_universe)
    /\ MonitoringPersisted

\* ---------------------------------------------------------- loop claims
\* a loop that has left its while loop, by the condition or by an exception
LoopOver(l) == loops[l] \in {"exited", "raised"}

\* C17: no polling loop terminates while the running flag is set: whatever a
\* poll of its sweep meets (a provider failure, a malformed payload), the loop
\* goes on to its sleep and its next sweep, and only a cleared flag ends it.
C17_LoopsOutliveFailures ==
    [][\A l \in Loops : (LoopOver(l)' /\ ~LoopOver(l)) => ~running]_vars

\* C18: once stop() has cleared the flag of a started stream, every polling
\* loop still running exits at its next evaluation of the loop condition,
\* after the polls in flight have ended and its sleep is over, so that
\* eventually no loop is left; the check that finds the flag cleared starts no
\* sweep, and a loop that is over never polls again.
C18_LoopsExitAfterStop ==
    /\ [][\A l \in Loops :
            /\ LoopOver(l) => (loops'[l] = loops[l] /\ sweep'[l] = {})
            /\ (loops[l] = "check" /\ loops'[l] # "check" /\ ~running)
               => (loops'[l] = "exited" /\ sweep'[l] = {})
            /\ (loops[l] = "sweep" /\ ~running) => sweep'[l] \subseteq sweep[l]]_vars
    /\ (~running /\ phase # "constructed") ~> (\A l \in Loops : LoopOver(l))

\* C18 witness: stop() came while the standard sweep was in flight; the
\* priority and the global loop have exited, and the standard loop, its polls
\* ended and its sleep over, has exited last
C18_Witness ==
    /\ ~running
    /\ phase = "started"
    /\ \A l \in Loops : loops[l] = "exited"
    /\ last = Ret("loop_check", "standard", "none", FALSE)
    /\ seen_news[ArticleA.url] # <<>>

\* ------------------------------------------------ mode claims (Controller)
\* C19: a step that ends in MANUAL mode shows an item or takes one out of the
\* queue only if it is force_next_alert; the timer does not run in MANUAL, and
\* a filter change, a switch to MANUAL and an arriving event leave the shown
\* item as it was and the queued items in place (an arrival appends one).
C19_ManualDeliversOnRequest ==
    [][mode' = "MANUAL"
        => /\ ~timer_active'
           /\ last'.op # "force_next_alert"
              => /\ shown' = shown
                 /\ Len(alert_queue') >= Len(alert_queue)
                 /\ SubSeq(alert_queue', 1, Len(alert_queue)) = alert_queue]_vars

\* C19 witness: in MANUAL mode, with the timer stopped and a filter change
\* to NVDA behind, the Next button showed an NVDA item and left a TSLA item
\* queued
C19_Witness ==
    /\ mode = "MANUAL"
    /\ ~timer_active
    /\ last = Ret("force_next_alert", "", "shown", FALSE)
    /\ current_filter = "NVDA"
    /\ shown # <<>>
    /\ shown[1].symbol = "NVDA"
    /\ alert_queue # <<>>
    /\ alert_queue[1].symbol = "TSLA"

\* whether the symbol passes the active filter
PassesFilter(symbol) == current_filter \in {"", "ALL"} \/ symbol = current_filter

\* C20: set_mode("AUTO") with a queued item passing the active filter takes
\* out of the queue the earliest such item and no other, shows it at once and
\* leaves the timer running; with no such item it shows nothing, leaves the
\* queue as it was and the timer running.
C20_SwitchToAutoDelivers ==
    [][(last'.op = "set_mode" /\ mode' = "AUTO")
        => /\ timer_active'
           /\ IF \E i \in DOMAIN alert_queue : PassesFilter(alert_queue[i].symbol)
              THEN \E i \in DOMAIN alert_queue :
                      /\ PassesFilter(alert_queue[i].symbol)
                      /\ \A j \in 1..(i - 1) : ~PassesFilter(alert_queue[j].symbol)
                      /\ alert_queue' = WithoutItem(alert_queue, i)
                      /\ shown' = <<alert_queue[i]>>
                      /\ last'.ret = "shown"
              ELSE /\ alert_queue' = alert_queue
                   /\ shown' = shown
                   /\ last'.ret = "nothing"]_vars

\* C20 witness: the switch to AUTO under filter NVDA showed the NVDA item
\* queued behind a TSLA item, which stays queued with a later NVDA item
C20_Witness ==
    /\ last = Ret("set_mode", "", "shown", FALSE)
    /\ mode = "AUTO"
    /\ timer_active
    /\ current_filter = "NVDA"
    /\ Len(alert_queue) = 2
    /\ alert_queue[1].symbol = "TSLA"
    /\ alert_queue[2].symbol = "NVDA"
    /\ shown # <<>>
    /\ shown[1].symbol = "NVDA"
    /\ shown[1].payload > alert_queue[1].payload
    /\ shown[1].payload < alert_queue[2].payload

\* --------------------------------------------------------- command claims
\* C21: a TogglePriority(symbol) command for a monitored symbol that is not
\* priority, with priority_universe below capacity, puts it in
\* priority_universe, and for a priority symbol takes it out.
C21_TogglePriority ==
    [][last'.op = "toggle_priority"
        => /\ (/\ last'.sym \in Range(monitoring_universe)
               /\ last'.sym \notin Range(priority_universe)
               /\ ~at_capacity(priority_universe))
              => last'.sym \in Range(priority_universe')
           /\ last'.sym \in Range(priority_universe)
              => last'.sym \notin Range(priority_universe')]_vars

\* ---------------------------------------------- aggregator claims, second part
\* the reports pending for a symbol that are younger than the TTL
Unexpired(s) == SelectSeq(buffer_of(buffer, s), LAMBDA n : now - n.time < TTL)

\* the non-empty summaries of a list of reports followed by one more report's
SummariesWith(list, summary) ==
    LET all == [i \in 1..(Len(list) + 1) |->
                   IF i <= Len(list) THEN list[i].summary ELSE summary]
    IN SelectSeq(all, LAMBDA x : x # "")

\* C22: for any threshold, a process call of a source with no unexpired report
\* pending that brings the symbol's unexpired reports to the threshold returns
\* one VerifiedNews with the sources of all of them in arrival order, their
\* non-empty summaries, and the headline of the report just given; the
\* symbol's buffer is empty afterwards.
C22_ConsensusCarriesCluster ==
    [][\A b \in Sources, s \in NewsSymbols, r \in Reports :
         (/\ <<b, s, r>> \in ProcessInputs
          /\ Process(b, s, r)
          /\ \A i \in DOMAIN Unexpired(s) : Unexpired(s)[i].source # b
          /\ Len(Unexpired(s)) + 1 >= threshold)
         => (/\ Len(returned') = 1
             /\ returned'[1].symbol = s
             /\ returned'[1].headline = r.headline
             /\ returned'[1].sources =
                   [i \in 1..(Len(Unexpired(s)) + 1) |->
                       IF i <= Len(Unexpired(s)) THEN Unexpired(s)[i].source ELSE b]
             /\ returned'[1].all_summaries = SummariesWith(Unexpired(s), r.summary)
             /\ Len(returned'[1].sources) = threshold
             /\ buffer'[s] = <<>>)]_vars

\* C22 witness: under threshold 3 a third source completed a cluster in which
\* one report had no summary; the story has three sources, fewer summaries,
\* and the buffer is empty
C22_Witness ==
    /\ threshold = 3
    /\ last.op = "process"
    /\ Len(returned) = 1
    /\ Len(returned[1].sources) = 3
    /\ Len(returned[1].all_summaries) \in {1, 2}
    /\ buffer[last.sym] = <<>>

\* C23: no report accepted into a symbol's buffer is lost: a report leaves the
\* buffer only in a step that returns a VerifiedNews of its symbol carrying
\* its source, by consensus or by the timer's flush.
C23_NoReportLost ==
    [][\A s \in DOMAIN buffer : \A i \in DOMAIN buffer[s] :
         (\A j \in DOMAIN buffer_of(buffer', s) : buffer'[s][j] # buffer[s][i])
         => (/\ returned' # <<>>
             /\ returned'[1].symbol = s
             /\ \E k \in DOMAIN returned'[1].sources :
                   returned'[1].sources[k] = buffer[s][i].source)]_vars

\* ------------------------------------------- delivery claims (Controller)
\* in AUTO mode the delivery timer is running: __init__ and set_mode("AUTO")
\* start it, a delivery restarts it, and only set_mode("MANUAL") stops it, so
\* the urgent trigger of _analyze_and_queue (line 343) never finds it stopped
AutoModeTimerRuns == mode = "AUTO" => timer_active

\* C25: the queue holds its items in arrival order, and whenever an item is
\* delivered, no item that arrived before it and passes the filter active at
\* that delivery is still queued: of two items that both pass the filters
\* active at their deliveries, the earlier arrival is delivered first,
\* whatever enqueues, ticks, requests, mode switches and filter changes come.
C25_ArrivalOrderKept ==
    /\ alert_queue = <<>>
    /\ [][/\ \A i, j \in DOMAIN alert_queue' :
                i < j => alert_queue'[i].payload < alert_queue'[j].payload
          /\ shown' # shown
             => /\ shown' # <<>>
                /\ \A i \in DOMAIN alert_queue' :
                      /\ alert_queue'[i] # shown'[1]
                      /\ alert_queue'[i].payload < shown'[1].payload
                         => ~(\/ current_filter' \in {"", "ALL"}
                              \/ alert_queue'[i].symbol = current_filter')]_vars

\* C25 witness: the change of the filter to NVDA delivered an NVDA item over
\* an older TSLA item, which stays at the head of the queue before a newer
\* NVDA item
C25_Witness ==
    /\ last = Ret("update_filter", "NVDA", "shown", FALSE)
    /\ shown # <<>>
    /\ shown[1].symbol = "NVDA"
    /\ Len(alert_queue) >= 2
    /\ alert_queue[1].symbol = "TSLA"
    /\ alert_queue[1].payload < shown[1].payload
    /\ alert_queue[2].symbol = "NVDA"
    /\ alert_queue[2].payload > shown[1].payload

\* C26: in AUTO mode a firing of the delivery timer with a queued item that
\* passes the filter delivers one such item and takes it out of the queue, so
\* that with the timer firing on every such item is delivered in the end.
C26_TickDelivers ==
    [][(/\ last'.op = "flush"
        /\ mode = "AUTO"
        /\ \E i \in DOMAIN alert_queue : PassesFilter(alert_queue[i].symbol))
       => (/\ shown' # shown
           /\ Len(alert_queue') = Len(alert_queue) - 1)]_vars

\* ------------------------------------------------------------ sync claims
\* a listing is stored and the last successful sync is more than 24h old
SyncOverdue ==
    /\ get_tickers(db_tickers) # <<>>
    /\ now - last_update(db_settings) > SYNC_PERIOD

\* C27: whenever the last successful sync is more than 24h old while the
\* stream is started, a sync runs: the sync recurs during the life of the
\* process, not only within start().
C27_SyncRecurs == (phase = "started" /\ SyncOverdue) ~> (phase = "syncing")

\* the listing a sync has to save: the primary one, or the secondary one when
\* the primary fetch failed or gave nothing
ListingOf(sec, av) == IF sec = <<>> THEN av ELSE sec

\* C28: in a sync, when the primary source gives nothing the secondary one is
\* used; a non-empty listing from either is merged into the ticker table and
\* full_universe with every symbol known before kept, the table is persisted,
\* the last-sync timestamp is set to the time of the sync, and exactly one
\* UNIVERSE_UPDATE event carrying the merged universe goes to the subscriber.
C28_SyncMerges ==
    [][\A sec \in Listings, av \in AvListings :
          (StartSynced(sec, av) /\ ListingOf(sec, av) # <<>>) =>
             /\ Range(db_tickers') = Range(db_tickers) \cup Range(ListingOf(sec, av))
             /\ Range(full_universe') = Range(db_tickers')
             /\ Range(full_universe) \subseteq Range(full_universe')
             /\ get_setting(db_settings', "last_universe_update") = <<py_str(now)>>
             /\ \A k \in DOMAIN db_settings :
                   k # "last_universe_update" => db_settings'[k] = db_settings[k]
             /\ Len(tasks') = Len(tasks) + 1
             /\ tasks'[Len(tasks')] =
                   [type |-> "UNIVERSE_UPDATE", symbol |-> "SYSTEM",
                    data |-> full_universe']
             /\ SubSeq(tasks', 1, Len(tasks)) = tasks]_vars

\* a later start of the program found the primary source failing, took the
\* secondary listing, and the symbols of the earlier sync are still there
C28_Witness ==
    /\ last.op = "start"
    /\ last.ret = "av"
    /\ restarts = 1
    /\ phase = "started"
    /\ {"MSFT", "NVDA"} \subseteq Range(full_universe)
    /\ Len(tasks) = 1
    /\ get_setting(db_settings, "last_universe_update") = <<py_str(now)>>

\* C29: when both listing sources fail in a sync, full_universe, the ticker
\* table and the last-sync timestamp stay as they were, the sync leaves
\* monitoring_universe alone (start() then loads the persisted list, if one
\* is stored, as it always does), no UNIVERSE_UPDATE event is emitted, and
\* start() goes on to launch the three polling loops.
C29_FailedSyncKeepsAll ==
    [][StartSynced(<<>>, <<>>) =>
          /\ UNCHANGED <<full_universe, db_tickers, db_settings, tasks>>
          /\ monitoring_universe' =
                IF get_setting(db_settings, "monitoring_universe") = <<>>
                THEN monitoring_universe
                ELSE json_loads(get_setting(db_settings, "monitoring_universe")[1])
          /\ running'
          /\ phase' = "started"
          /\ \A l \in Loops : loops'[l] = "check"]_vars

\* both sources failed with nothing stored, a subscriber is registered, and
\* each of the three loops has begun: none is still before its first check
C29_Witness ==
    /\ phase = "started"
    /\ db_tickers = <<>>
    /\ full_universe = <<>>
    /\ get_setting(db_settings, "last_universe_update") = <<>>
    /\ subscribers # <<>>
    /\ tasks = <<>>
    /\ \A l \in Loops : loops[l] \in {"sweep", "sleep"}

\* ----------------------------------------------------------- sweep claims
\* what a sweep of loop l has to poll, from the universes as they are now
Snapshot(l) ==
    IF l = "priority"
    THEN {priority_universe[i] : i \in DOMAIN priority_universe}
    ELSE {monitoring_universe[i] : i \in DOMAIN monitoring_universe}
            \ {priority_universe[i] : i \in DOMAIN priority_universe}
\* the news items a poll of loop l may take
LimitOf(l) == IF l = "priority" THEN 5 ELSE 2
\* the first n urls of a news list
FirstUrls(news_list, n) == {news_list[j].url : j \in {i \in DOMAIN news_list : i <= n}}

\* C30: a sweep of the standard loop polls exactly the symbols that are in
\* monitoring_universe and not in priority_universe when the sweep starts, a
\* sweep of the priority loop exactly those of priority_universe; a poll of
\* the standard loop takes news from the first 2 items only, one of the
\* priority loop from the first 5; and the two sweeps started from the same
\* universes share no symbol.
C30_SweepsPollSnapshot ==
    [][/\ sweep_of("priority") \cap sweep_of("standard") = {}
       /\ \A l \in {"priority", "standard"} :
             /\ (loops[l] = "check" /\ loops'[l] = "sweep") =>
                    (sweep'[l] = Snapshot(l) /\ Snapshot(l) # {})
             /\ (loops[l] = "check" /\ loops'[l] = "sleep") => Snapshot(l) = {}
             /\ (loops[l] = "sweep" /\ loops'[l] # "sweep") =>
                    (sweep'[l] = {} /\ loops'[l] = "sleep")
             /\ sweep'[l] # sweep[l] =>
                    \/ loops[l] = "check" /\ loops'[l] = "sweep"
                    \/ /\ last'.op = "poll_symbol"
                       /\ last'.sym \in sweep[l]
                       /\ sweep'[l] = sweep[l] \ {last'.sym}
                       /\ last'.poll = (l = "priority")
       /\ last'.op = "poll_symbol" =>
             \E l \in {"priority", "standard"} : sweep'[l] # sweep[l]
       /\ \A l \in {"priority", "standard"}, symbol \in Range(DefaultMonitoring),
             news_list \in SweepNewsLists :
             LoopPollSymbol(l, symbol, "ok", news_list,
                            [i \in DOMAIN news_list |-> FALSE], FALSE) =>
                /\ Len(emitted') <= LimitOf(l)
                /\ \A i \in DOMAIN emitted' :
                      emitted'[i].url \in FirstUrls(news_list, LimitOf(l))]_vars

\* a poll of the standard sweep ran through and took nothing although the
\* article, third in the list, was new; its symbol was marked priority after
\* the sweep had started and was still polled by the standard loop
C30_Witness ==
    /\ last.op = "poll_symbol"
    /\ last.ret = "none"
    /\ ~last.poll
    /\ last.sym \in Range(priority_universe)
    /\ emitted = <<>>
    /\ offered = {}
    /\ news_dedup.keys = {}
    /\ seen_news[ArticleA.url] = <<>>

\* ------------------------------------------------- dedup tiers (claims)
\* C31: every item a poll admits has its key in the in-memory set (the feed
\* poll may evict it again at once) and in the seen_news table when its event
\* is emitted; and an item whose key is in the table but not in the set is
\* dropped and its key is put into the set, on the per-symbol path as on the
\* feed path.
C31_BothTiersAndBackfill ==
    [][PollStep =>
         /\ \A i \in DOMAIN emitted' :
               /\ seen_news'[emitted'[i].key] # <<>>
               /\ last'.op = "poll_symbol" => emitted'[i].key \in news_dedup'.keys
         /\ \A k \in offered' :
               (k \notin news_dedup.keys /\ seen_news[k] # <<>>)
               => /\ \A i \in DOMAIN emitted' : emitted'[i].key # k
                  /\ k \in news_dedup'.keys]_vars

\* C32: the in-memory dedup set never holds more than 2000 keys once a poll,
\* per-symbol or of the feed, has completed.
C32_DedupSetBounded == dedup_len(news_dedup) <= 2000

\* ----------------------------------------------------- concurrency claims
\* C33: a loop sleeps only when every poll of its sweep has finished, and a
\* poll of one loop that never completes leaves the other loops free to go
\* on: one that sleeps can wake, one at its check can start its next sweep.
C33_HangBlocksOwnSweepOnly ==
    /\ \A l \in Loops : loops[l] = "sleep" => sweep[l] = {}
    /\ \A l \in Loops : loops[l] = "sweep" => sweep[l] # {}
    /\ \A l, m \in Loops :
          (l # m /\ sweep[l] # {} /\ phase = "started") =>
             /\ loops[m] = "sleep" => ENABLED (EventLoopFree /\ LoopWake(m))
             /\ loops[m] = "check" => ENABLED (EventLoopFree /\ LoopCheck(m))

\* ------------------------------------------------------- feed tag claims
\* the articles the feed is made of here, and the tags the claim lets through
FeedItems == UNION {Range(f) : f \in NewsFeeds}
TagAdmitted(t) ==
    IF full_universe # <<>>
    THEN t \in Range(full_universe)
    ELSE t # "" /\ isalpha(t)

\* C34: for a feed article that passes deduplication, a RAW_NEWS event is
\* emitted for a tagged symbol exactly when the symbol is in full_universe
\* (full_universe non-empty) or is a non-empty alphabetic tag (full_universe
\* empty); the other tags give no event.
C34_TagsCheckedAgainstUniverse ==
    [][(PollStep /\ last'.op = "poll_alpha_vantage") =>
          \A item \in FeedItems :
             (/\ dedup_key_of(item) \in offered'
              /\ dedup_key_of(item) \notin news_dedup.keys
              /\ seen_news[dedup_key_of(item)] = <<>>)
             => {emitted'[i].symbol : i \in {j \in DOMAIN emitted' :
                                                emitted'[j].key = dedup_key_of(item)}}
                  = {t \in Range(item.tickers) : TagAdmitted(t)}]_vars

\* with full_universe still empty the article tagged NVDA, AAPL and CRYPTO:BTC
\* gave an event for NVDA and one for AAPL, none for CRYPTO:BTC
C34_Witness ==
    /\ last.op = "poll_alpha_vantage"
    /\ full_universe = <<>>
    /\ offered = {FeedA.url}
    /\ Len(emitted) = 2
    /\ {emitted[i].symbol : i \in DOMAIN emitted} = {"NVDA", "AAPL"}

\* ------------------------------------------------- store failure claims
\* C35: a failure of the persistent store during a poll or during startup
\* ends no polling loop and does not abort start().
C35_StoreFailureNotFatal ==
    [][last'.ret = "sqlite3.Error" =>
          /\ phase' # "failed"
          /\ \A l \in Loops :
                loops'[l] \in {"raised", "exited"} => loops'[l] = loops[l]]_vars

\* ------------------------------------------------------- overlap claims
\* how often x occurs in a list
Occurrences(list, x) == Cardinality({i \in DOMAIN list : list[i] = x})

\* C36: when the last of several overlapping track_symbol calls for a symbol
\* that was unknown completes with True, the symbol is exactly once in
\* full_universe and exactly once in monitoring_universe.
C36_UniqueUnderOverlap ==
    [][(/\ last'.op = "track_symbol"
        /\ last'.ret = "true"
        /\ track_tasks[last'.sym] = 1
        /\ track_tasks'[last'.sym] = 0)
       => /\ Occurrences(full_universe', last'.sym) = 1
          /\ Occurrences(monitoring_universe', last'.sym) = 1]_vars

\* ------------------------------------------------------- shedding claims
\* the RAW_NEWS task the event loop runs next
NewsTask == tasks # <<>> /\ Head(tasks).type = "RAW_NEWS"

\* C37 as stated: a RAW_NEWS event that arrives while the queue holds 5 items
\* leaves the pending buffer and the queue as they are, and a story shed in
\* this way never gets to the queue afterwards.
C37_ShedNeverDelivered ==
    [][(RunTask /\ NewsTask) =>
          /\ Len(alert_queue) >= 5 => UNCHANGED <<buffer, alert_queue, shown>>
          /\ Len(alert_queue) < 5 =>
                <<Head(tasks).key, Head(tasks).symbol, "shed">> \notin reached]_vars

\* C37: a RAW_NEWS event that arrives while the queue holds 5 items leaves
\* the pending buffer and the queue as they are; its key stays recorded, so a
\* later poll admits the story again only when at least 24h have passed since
\* it was admitted: within that time a shed story is not delivered.
C37_ShedNotReadmittedWhileRetained ==
    [][/\ (RunTask /\ NewsTask /\ Len(alert_queue) >= 5) =>
             UNCHANGED <<buffer, alert_queue, shown>>
       /\ PollStep =>
             \A i \in DOMAIN emitted' :
                <<emitted'[i].key, emitted'[i].symbol, "shed">> \in reached
                => /\ admitted_at[emitted'[i].key] # <<>>
                   /\ now - admitted_at[emitted'[i].key][1] >= SEEN_RETENTION]_vars

\* the article was shed at the full queue and, offered again by a later poll
\* of the same symbol, was turned away
C37_Witness ==
    /\ <<ArticleA.url, "NVDA", "shed">> \in reached
    /\ last.op = "poll_symbol"
    /\ last.sym = "NVDA"
    /\ offered = {ArticleA.url}
    /\ emitted = <<>>
    /\ tasks = <<>>

\* ------------------------------------------------- threshold-of-one claims
\* the AlertItem the Controller builds next
NextItem(symbol) == [symbol |-> symbol, payload |-> arrivals + 1]

\* C38: with the Controller's consensus threshold of 1 no symbol has reports
\* pending after a process call, and every RAW_NEWS event handled while the
\* queue holds fewer than 5 items has exactly one AlertItem built and appended
\* to the queue (the first item of an idle AUTO queue is appended and shown
\* at once by the urgent trigger).
C38_ThresholdOneQueuesEach ==
    /\ \A s \in DOMAIN buffer : buffer[s] = <<>>
    /\ [][(RunTask /\ NewsTask /\ Len(alert_queue) < 5) =>
             /\ Head(tasks).symbol \in DOMAIN buffer'
             /\ \A s \in DOMAIN buffer' : buffer'[s] = <<>>
             /\ returned' # <<>>
             /\ arrivals' = arrivals + 1
             /\ \/ alert_queue' = Append(alert_queue, NextItem(Head(tasks).symbol))
                \/ /\ alert_queue = <<>>
                   /\ alert_queue' = <<>>
                   /\ shown' = <<NextItem(Head(tasks).symbol)>>]_vars

\* a RAW_NEWS event for NVDA was handled at a queue that held items already
\* and is now the last item of the queue, with nothing pending for NVDA
C38_Witness ==
    /\ last.op = "process_market_event"
    /\ last.ret = "queued"
    /\ last.sym = "NVDA"
    /\ Len(alert_queue) >= 2
    /\ alert_queue[Len(alert_queue)] = [symbol |-> "NVDA", payload |-> arrivals]
    /\ "NVDA" \in DOMAIN buffer
    /\ buffer["NVDA"] = <<>>
    /\ returned # <<>>
    /\ returned[1].symbol = "NVDA"

\* ---------------------------------------------------------- removal claims
\* C39: the sweep a polling loop starts right after remove_symbol(s) has
\* completed does not poll s, whether s was a priority symbol or not.
C39_RemovedNotPolled ==
    [][(/\ last.op = "remove_symbol"
        /\ \E l \in Loops : LoopCheck(l) /\ loops'[l] = "sweep")
       => \A l \in Loops : loops'[l] = "sweep" /\ loops[l] = "check"
                               => last.sym \notin sweep'[l]]_vars

====
